---------------------------- MODULE Spec2Model ----------------------------
(***************************************************************************)
(* A model of the financial projection and waterfall engine of cremodel:   *)
(*   src/calculations/distributions.py  (annual distribution waterfall)    *)
(*   src/calculations/financing.py      (amortization, sizing, refinance)  *)
(*                                                                         *)
(* Money, rates and shares are Python floats in the source.  The model     *)
(* evaluates the same expressions over exact rationals <<n, d>> (d > 0, in *)
(* lowest terms), so every identity checked here is the real-number        *)
(* identity; IEEE-754 rounding error of the order of one ulp is outside    *)
(* the model.                                                              *)
(***************************************************************************)
EXTENDS Integers, Sequences, FiniteSets, TLC

VARIABLES
    pc,                           \* position of the run that is modelled
    wf_in,                        \* arguments of calculate_multi_year_waterfall
    lp_cumulative_deficit,        \* distributions.py:137
    gp_cumulative_deficit,        \* distributions.py:138
    lp_cumulative_distributions,  \* distributions.py:141
    gp_cumulative_distributions,  \* distributions.py:142
    waterfall_data,               \* distributions.py:136, the rows appended so far
    dist,                         \* the last result of calculate_waterfall_distribution
    dist_in,                      \* arguments of a direct call of calculate_waterfall_distribution
    loan_in,                      \* arguments of a balance call
    balance,                      \* results of the balance call, per elapsed year
    acq,                          \* the acquisition loan sized by the buy-and-hold pipeline
    refi_in,                      \* arguments of calculate_refinance
    refi,                         \* result of calculate_refinance
    feas_in,                      \* arguments of check_refi_feasibility_with_lease
    feas,                         \* result of check_refi_feasibility_with_lease
    noi_in,                       \* arguments of an NOI projection
    noi_schedule,                 \* cash_flows.py:62 and :156, the rows appended so far
    exit_in,                      \* the inputs of the exit waterfall of the app
    exit_state,                   \* the locals of the exit waterfall assigned so far
    irr_in,                       \* a cash-flow stream handed to the IRR solvers
    irr_out,                      \* what the solvers returned and what is displayed
    quick_state,                  \* the locals of the exit waterfall of quick_deal_irr
    cash_in,                      \* the sidebar inputs of a cash-flow run
    cash_state,                   \* the locals of the annual cash-flow loop and cf_data
    quick_cash,                   \* the locals of the loop of quick_deal_irr and cf_list
    sweep                         \* the shared structures of a run and the sensitivity tables

wf_state == <<lp_cumulative_deficit, gp_cumulative_deficit,
              lp_cumulative_distributions, gp_cumulative_distributions, waterfall_data>>
fin_vars == <<loan_in, balance, acq, refi_in, refi>>

lease_vars == <<feas_in, feas, noi_in, noi_schedule>>
exit_vars == <<exit_in, exit_state>>

app_vars == <<irr_in, irr_out, quick_state, cash_in, cash_state, quick_cash, sweep>>

vars == <<pc, wf_in, wf_state, dist, dist_in, fin_vars, lease_vars, exit_vars, app_vars>>

---------------------------------------------------------------------------
(* Exact rational arithmetic standing for Python's float operators.        *)

Abs(x) == IF x < 0 THEN -x ELSE x

RECURSIVE GCD(_, _)
GCD(a, b) == IF b = 0 THEN a ELSE GCD(b, a % b)

Norm(n, d) ==
    LET g == GCD(Abs(n), Abs(d))
        s == IF d < 0 THEN -1 ELSE 1
    IN  <<s * (n \div g), s * (d \div g)>>

R(x) == <<x, 1>>
Frac(n, d) == Norm(n, d)
Zero == R(0)
One == R(1)
Hundred == R(100)

RNeg(a) == <<-a[1], a[2]>>

RAdd(a, b) ==
    LET g == GCD(a[2], b[2])
    IN  Norm(a[1] * (b[2] \div g) + b[1] * (a[2] \div g), (a[2] \div g) * b[2])

RSub(a, b) == RAdd(a, RNeg(b))

RMul(a, b) ==
    LET g1 == GCD(Abs(a[1]), b[2])
        g2 == GCD(Abs(b[1]), a[2])
    IN  IF a[1] = 0 \/ b[1] = 0 THEN Zero
        ELSE Norm((a[1] \div g1) * (b[1] \div g2), (a[2] \div g2) * (b[2] \div g1))

\* a / b for b # 0; the callers model ZeroDivisionError before dividing.
RDiv(a, b) == RMul(a, Norm(b[2], b[1]))

RSign(a) == IF a[1] > 0 THEN 1 ELSE IF a[1] < 0 THEN -1 ELSE 0
RLt(a, b) == RSign(RSub(a, b)) < 0
RLe(a, b) == RSign(RSub(a, b)) <= 0
RGt(a, b) == RLt(b, a)
RGe(a, b) == RLe(b, a)
RMin(a, b) == IF RLe(a, b) THEN a ELSE b
RMax(a, b) == IF RGe(a, b) THEN a ELSE b

RECURSIVE RPow(_, _)
RPow(a, n) == IF n = 0 THEN One ELSE RMul(a, RPow(a, n - 1))

\* The value v bound to a local name of the body F: a local assignment.
Let(v, F(_)) == CHOOSE y \in {F(x) : x \in {v}} : TRUE

\* x percent, as the source writes it: x / 100
Pct(x) == RDiv(x, Hundred)

---------------------------------------------------------------------------
(* distributions.py: calculate_waterfall_distribution                      *)

\* lines 30-31: current-year preferred return of one party
pref_current(equity, pref_rate) == RMul(equity, Pct(pref_rate))

\* A slip at lines 35-36: the carried deficit is not added to what is owed.
total_pref_owed_without_deficit(current, cumulative_deficit) == current

\* lines 35-36: total pref owed = current + cumulative deficit
total_pref_owed_of(current, cumulative_deficit) == RAdd(current, cumulative_deficit)

\* A slip at line 53: the payment is not capped at the amount owed.
pref_payment_uncapped(remaining_cash, total_pref_owed) == remaining_cash

\* line 53
pref_payment_of(remaining_cash, total_pref_owed) == RMin(remaining_cash, total_pref_owed)

\* A slip at lines 57-58: pro rata by equity contribution (lines 26-27).
pref_share_by_equity(pref_payment, party_owed, total_owed, party_equity, total_equity) ==
    IF RGt(total_equity, Zero)
    THEN RMul(pref_payment, RDiv(party_equity, total_equity))
    ELSE Zero

\* lines 57-58: pro rata by the amounts owed (the equity amounts of lines 25-27
\* are in scope there and are not used)
pref_share(pref_payment, party_owed, total_owed, party_equity, total_equity) ==
    RMul(pref_payment, RDiv(party_owed, total_owed))

\* lines 63-64
new_deficit_of(party_owed, party_paid) == RSub(party_owed, party_paid)

\* line 76: the target of the catch-up tier (the denominator is nonzero here).
\* The comments of lines 70 and 75 subtract gp_pref_paid; the expression of
\* line 76 does not.
target_gp_catchup_of(gp_profit_share, total_distributed_before_catchup, gp_pref_paid) ==
    RDiv(RMul(Pct(gp_profit_share), total_distributed_before_catchup),
         RSub(One, Pct(gp_profit_share)))

\* line 77
gp_catchup_of(remaining_cash, target_gp_catchup) ==
    RMin(remaining_cash, RMax(Zero, target_gp_catchup))

\* A slip at lines 60 and 78: the tier's payment is not taken off the cash.
cash_after_not_deducted(remaining_cash, paid) == remaining_cash

\* lines 60 and 78: remaining_cash -= paid
cash_after(remaining_cash, paid) == RSub(remaining_cash, paid)

\* lines 82-83
lp_split_of(remaining_cash, gp_profit_share) ==
    RMul(remaining_cash, Pct(RSub(Hundred, gp_profit_share)))
gp_split_of(remaining_cash, gp_profit_share) ==
    RMul(remaining_cash, Pct(gp_profit_share))

\* lines 25-37: equity shares, current pref and total pref owed
pref_owed(lp_equity, gp_equity, pref_rate, lp_deficit_in, gp_deficit_in) ==
    LET total_equity == RAdd(lp_equity, gp_equity)
        has_equity == RGt(total_equity, Zero)
        lp_pref_current == pref_current(lp_equity, pref_rate)
        gp_pref_current == pref_current(gp_equity, pref_rate)
        lp_total_pref_owed == total_pref_owed_of(lp_pref_current, lp_deficit_in)
        gp_total_pref_owed == total_pref_owed_of(gp_pref_current, gp_deficit_in)
    IN  [lp_equity |-> lp_equity,
         gp_equity |-> gp_equity,
         total_equity |-> total_equity,
         lp_equity_pct |-> IF has_equity THEN RDiv(lp_equity, total_equity) ELSE Zero,
         gp_equity_pct |-> IF has_equity THEN RDiv(gp_equity, total_equity) ELSE Zero,
         lp_pref_current |-> lp_pref_current,
         gp_pref_current |-> gp_pref_current,
         lp_pref_owed |-> lp_total_pref_owed,
         gp_pref_owed |-> gp_total_pref_owed,
         total_pref_owed |-> RAdd(lp_total_pref_owed, gp_total_pref_owed)]

\* lines 52-60, with the branch of line 52 taken: o is the record of pref_owed
pref_tier_paid(cash_available, o) ==
    Let(pref_payment_of(cash_available, o.total_pref_owed), LAMBDA pref_payment :
        [lp_pref_paid |-> pref_share(pref_payment, o.lp_pref_owed, o.total_pref_owed,
                                     o.lp_equity, o.total_equity),
         gp_pref_paid |-> pref_share(pref_payment, o.gp_pref_owed, o.total_pref_owed,
                                     o.gp_equity, o.total_equity),
         remaining_cash |-> cash_after(cash_available, pref_payment)])

\* lines 40-41, 46, 52-60: tier 2
pref_tier(cash_available, o) ==
    IF RGt(cash_available, Zero) /\ RGt(o.total_pref_owed, Zero)
    THEN pref_tier_paid(cash_available, o)
    ELSE [lp_pref_paid |-> Zero, gp_pref_paid |-> Zero, remaining_cash |-> cash_available]

\* lines 72-78, with the branches of lines 67 and 74 taken and no exception
catchup_tier_paid(gp_profit_share, t2) ==
    Let(target_gp_catchup_of(gp_profit_share, RAdd(t2.lp_pref_paid, t2.gp_pref_paid),
                             t2.gp_pref_paid),
        LAMBDA target :
        Let(gp_catchup_of(t2.remaining_cash, target), LAMBDA gp_catchup :
            [raised |-> FALSE, catchup_tier |-> TRUE, target_gp_catchup |-> target,
             gp_catchup |-> gp_catchup,
             remaining_cash |-> cash_after(t2.remaining_cash, gp_catchup)]))

\* lines 42, 67-78: tier 3.  Line 76 divides by (1 - gp_profit_share / 100) and
\* raises ZeroDivisionError when that is zero.
catchup_tier(include_catchup, gp_profit_share, t2) ==
    IF include_catchup /\ RGt(t2.remaining_cash, Zero) /\ RGt(gp_profit_share, Zero)
    THEN IF RSub(One, Pct(gp_profit_share)) = Zero
         THEN [raised |-> TRUE]
         ELSE catchup_tier_paid(gp_profit_share, t2)
    ELSE [raised |-> FALSE, catchup_tier |-> FALSE, target_gp_catchup |-> Zero,
          gp_catchup |-> Zero, remaining_cash |-> t2.remaining_cash]

\* lines 43-44, 81-84: tier 4
split_tier(remaining_cash, gp_profit_share) ==
    IF RGt(remaining_cash, Zero)
    THEN [lp_split |-> lp_split_of(remaining_cash, gp_profit_share),
          gp_split |-> gp_split_of(remaining_cash, gp_profit_share)]
    ELSE [lp_split |-> Zero, gp_split |-> Zero]

\* lines 63-64, 87-116: the deficits, the totals and the returned dictionary
distribution_result(cash_available, o, t2, t3, t4) ==
    Let(RAdd(t2.lp_pref_paid, t4.lp_split), LAMBDA lp_total :
    Let(RAdd(RAdd(t2.gp_pref_paid, t3.gp_catchup), t4.gp_split), LAMBDA gp_total :
        [raised |-> FALSE,
         cash_available |-> cash_available,
         lp_equity_pct |-> o.lp_equity_pct,
         gp_equity_pct |-> o.gp_equity_pct,
         lp_pref_current |-> o.lp_pref_current,
         gp_pref_current |-> o.gp_pref_current,
         lp_pref_owed |-> o.lp_pref_owed,
         gp_pref_owed |-> o.gp_pref_owed,
         lp_pref_paid |-> t2.lp_pref_paid,
         gp_pref_paid |-> t2.gp_pref_paid,
         cash_after_pref |-> t2.remaining_cash,
         catchup_tier |-> t3.catchup_tier,
         target_gp_catchup |-> t3.target_gp_catchup,
         gp_catchup |-> t3.gp_catchup,
         lp_split |-> t4.lp_split,
         gp_split |-> t4.gp_split,
         lp_total |-> lp_total,
         gp_total |-> gp_total,
         total_distributed |-> RAdd(lp_total, gp_total),
         new_lp_deficit |-> new_deficit_of(o.lp_pref_owed, t2.lp_pref_paid),
         new_gp_deficit |-> new_deficit_of(o.gp_pref_owed, t2.gp_pref_paid)]))

\* lines 4-116.  cash_after_pref, catchup_tier and target_gp_catchup are locals
\* of the function (remaining_cash after line 60, the branch of lines 67/74,
\* target_gp_catchup of line 76) kept beside the returned keys.
calculate_waterfall_distribution(cash_available, lp_equity, gp_equity, pref_rate, gp_profit_share, lp_deficit_in, gp_deficit_in, include_catchup) ==
    Let(pref_owed(lp_equity, gp_equity, pref_rate, lp_deficit_in, gp_deficit_in), LAMBDA o :
    Let(pref_tier(cash_available, o), LAMBDA t2 :
    Let(catchup_tier(include_catchup, gp_profit_share, t2), LAMBDA t3 :
        IF t3.raised
        THEN [raised |-> TRUE]
        ELSE distribution_result(cash_available, o, t2, t3,
                                 split_tier(t3.remaining_cash, gp_profit_share)))))

---------------------------------------------------------------------------
(* Bounds and inputs of the waterfall runs.                                *)

MaxYears == 3

LpEquitySet == {0, 60, 90}
GpEquitySet == {0, 10, 40}
PrefRateSet == {0, 10}
GpShareSet == {0, 20, 100}
CashSet == {-5, 0, 4, 10, 60}
DeficitSet == {0, 5, 20}

Idle == "idle"

\* The parts of the state a run of another component leaves alone.
NoWaterfall ==
    /\ wf_in = Idle
    /\ lp_cumulative_deficit = Zero
    /\ gp_cumulative_deficit = Zero
    /\ lp_cumulative_distributions = Zero
    /\ gp_cumulative_distributions = Zero
    /\ waterfall_data = <<>>
NoFinancing ==
    /\ loan_in = Idle
    /\ balance = <<>>
    /\ acq = Idle
    /\ refi_in = Idle
    /\ refi = Idle

NoLease ==
    /\ feas_in = Idle
    /\ feas = Idle
    /\ noi_in = Idle
    /\ noi_schedule = <<>>

NoExit ==
    /\ exit_in = Idle
    /\ exit_state = Idle

NoCash ==
    /\ cash_in = Idle
    /\ cash_state = Idle
    /\ quick_cash = Idle

NoSweep == sweep = Idle

NoApp ==
    /\ irr_in = Idle
    /\ irr_out = Idle
    /\ quick_state = Idle
    /\ NoCash
    /\ NoSweep

WaterfallInputs ==
    [lp_equity : LpEquitySet, gp_equity : GpEquitySet, pref_rate : PrefRateSet,
     gp_profit_share : GpShareSet, include_catchup : BOOLEAN]

DistInputs ==
    [cash_available : CashSet, lp_equity : LpEquitySet, gp_equity : GpEquitySet,
     pref_rate : PrefRateSet, gp_profit_share : GpShareSet,
     lp_cumulative_deficit : DeficitSet, gp_cumulative_deficit : DeficitSet,
     include_catchup : BOOLEAN]

---------------------------------------------------------------------------
(* distributions.py: calculate_multi_year_waterfall, one loop iteration    *)
(* per step.  The rows of cf_df are any sequence of Cash Available values. *)

InitWaterfall ==
    /\ pc = "loop"
    /\ wf_in \in WaterfallInputs
    /\ lp_cumulative_deficit = Zero
    /\ gp_cumulative_deficit = Zero
    /\ lp_cumulative_distributions = Zero
    /\ gp_cumulative_distributions = Zero
    /\ waterfall_data = <<>>
    /\ dist = Idle
    /\ dist_in = Idle
    /\ NoFinancing
    /\ NoLease
    /\ NoExit
    /\ NoApp

year_dist(cash) ==
    calculate_waterfall_distribution(R(cash), R(wf_in.lp_equity), R(wf_in.gp_equity),
                                     R(wf_in.pref_rate), R(wf_in.gp_profit_share),
                                     lp_cumulative_deficit, gp_cumulative_deficit,
                                     wf_in.include_catchup)

\* lines 144-183: one iteration that returns from the call
WaterfallStep(cash) ==
    /\ pc = "loop"
    /\ Len(waterfall_data) < MaxYears
    /\ \E d \in {year_dist(cash)} :
         /\ ~d.raised
         /\ dist' = d
         /\ lp_cumulative_deficit' = d.new_lp_deficit
         /\ gp_cumulative_deficit' = d.new_gp_deficit
         /\ lp_cumulative_distributions' = RAdd(lp_cumulative_distributions, d.lp_total)
         /\ gp_cumulative_distributions' = RAdd(gp_cumulative_distributions, d.gp_total)
         /\ waterfall_data' = Append(waterfall_data,
                [Year |-> Len(waterfall_data) + 1,
                 Cash_Available |-> R(cash),
                 LP_Pref |-> d.lp_pref_paid,
                 LP_Split |-> d.lp_split,
                 LP_Total |-> d.lp_total,
                 LP_Cumulative |-> RAdd(lp_cumulative_distributions, d.lp_total),
                 GP_Pref |-> d.gp_pref_paid,
                 GP_Catch_up |-> d.gp_catchup,
                 GP_Split |-> d.gp_split,
                 GP_Total |-> d.gp_total,
                 GP_Cumulative |-> RAdd(gp_cumulative_distributions, d.gp_total),
                 LP_Pref_Deficit |-> d.new_lp_deficit,
                 GP_Pref_Deficit |-> d.new_gp_deficit])
    /\ UNCHANGED <<pc, wf_in, dist_in, fin_vars, lease_vars, exit_vars, app_vars>>

\* line 144: the row of cf_df holds any Cash Available
WaterfallYear == \E cash \in CashSet : WaterfallStep(cash)

\* lines 148-153: the call raises (ZeroDivisionError at line 76), the loop is
\* left and no table is returned
WaterfallRaise ==
    /\ pc = "loop"
    /\ Len(waterfall_data) < MaxYears
    /\ \E cash \in CashSet : \E d \in {year_dist(cash)} :
         /\ d.raised
         /\ pc' = "raised"
    /\ UNCHANGED <<wf_in, wf_state, dist, dist_in, fin_vars, lease_vars, exit_vars, app_vars>>

\* line 185: cf_df is exhausted and the table is returned
WaterfallReturn ==
    /\ pc = "loop"
    /\ pc' = "returned"
    /\ UNCHANGED <<wf_in, wf_state, dist, dist_in, fin_vars, lease_vars, exit_vars, app_vars>>

NextWaterfall == WaterfallYear \/ WaterfallRaise \/ WaterfallReturn

SpecWaterfall == InitWaterfall /\ [][NextWaterfall]_vars

---------------------------------------------------------------------------
(* A direct call of calculate_waterfall_distribution with any carried      *)
(* deficits.                                                               *)

InitDist ==
    /\ pc = "dist_call"
    /\ dist_in \in DistInputs
    /\ dist = Idle
    /\ NoWaterfall
    /\ NoFinancing
    /\ NoLease
    /\ NoExit
    /\ NoApp

DistCall ==
    /\ pc = "dist_call"
    /\ dist' = calculate_waterfall_distribution(
                  R(dist_in.cash_available), R(dist_in.lp_equity), R(dist_in.gp_equity),
                  R(dist_in.pref_rate), R(dist_in.gp_profit_share),
                  R(dist_in.lp_cumulative_deficit), R(dist_in.gp_cumulative_deficit),
                  dist_in.include_catchup)
    /\ pc' = IF dist'.raised THEN "dist_raised" ELSE "dist_returned"
    /\ UNCHANGED <<wf_in, wf_state, dist_in, fin_vars, lease_vars, exit_vars, app_vars>>

NextDist == DistCall

SpecDist == InitDist /\ [][NextDist]_vars

---------------------------------------------------------------------------
(* financing.py: payments, balances and the loan a payment supports.       *)

\* lines 10, 25, 61, 73, 95, 112: monthly_rate = (annual_rate / 100) / 12
monthly_rate_of(annual_rate) == RDiv(Pct(annual_rate), R(12))

\* lines 11, 27, 62, 74, 96, 113: total number of monthly payments
total_payments_of(term_years) == term_years * 12

\* A slip at lines 26 and 75: the elapsed years are not turned into months.
num_payments_made_in_years(year) == year

\* lines 26, 75
num_payments_made_of(year) == year * 12

\* (1 + monthly_rate) ** n
growth(monthly_rate, n) == RPow(RAdd(One, monthly_rate), n)

\* lines 15, 33, 67, 85: the level monthly payment at a nonzero rate
monthly_payment_of(loan_amount, monthly_rate, n) ==
    Let(growth(monthly_rate, n), LAMBDA g :
        RDiv(RMul(loan_amount, RMul(monthly_rate, g)), RSub(g, One)))

\* lines 38, 86, 102, 118: the present value of n monthly payments at a nonzero rate
present_value_of(monthly_payment, monthly_rate, n) ==
    Let(growth(monthly_rate, n), LAMBDA g :
        RDiv(RMul(monthly_payment, RSub(g, One)), RMul(monthly_rate, g)))

\* lines 30, 78: the zero-rate branch returns before remaining_payments is looked at
zero_rate_balance(loan_amount, total_payments, num_payments_made) ==
    RSub(loan_amount, RMul(RDiv(loan_amount, R(total_payments)), R(num_payments_made)))

\* lines 59-69 (term_years > 0)
calculate_perm_loan_payment(loan_amount, annual_rate, amort_years) ==
    Let(monthly_rate_of(annual_rate), LAMBDA monthly_rate :
        RMul(IF monthly_rate = Zero
             THEN RDiv(loan_amount, R(total_payments_of(amort_years)))
             ELSE monthly_payment_of(loan_amount, monthly_rate, total_payments_of(amort_years)),
             R(12)))

\* lines 3-16
calculate_bridge_loan_payment(loan_amount, annual_rate, term_years, is_io) ==
    IF is_io
    THEN RMul(loan_amount, Pct(annual_rate))
    ELSE calculate_perm_loan_payment(loan_amount, annual_rate, term_years)

\* lines 71-88 (amort_years > 0)
calculate_perm_loan_balance(loan_amount, annual_rate, amort_years, year) ==
    Let(monthly_rate_of(annual_rate), LAMBDA monthly_rate :
        IF monthly_rate = Zero
        THEN zero_rate_balance(loan_amount, total_payments_of(amort_years),
                               num_payments_made_of(year))
        ELSE IF total_payments_of(amort_years) - num_payments_made_of(year) <= 0
        THEN Zero
        ELSE present_value_of(
                 monthly_payment_of(loan_amount, monthly_rate, total_payments_of(amort_years)),
                 monthly_rate,
                 total_payments_of(amort_years) - num_payments_made_of(year)))

\* lines 18-39 (term_years > 0): the amortizing branch computes what
\* calculate_perm_loan_balance computes, the payment before the test of line 35
calculate_bridge_loan_balance(loan_amount, annual_rate, term_years, year, is_io) ==
    IF is_io
    THEN loan_amount
    ELSE calculate_perm_loan_balance(loan_amount, annual_rate, term_years, year)

\* lines 109-119
calculate_loan_from_payment(annual_payment, annual_rate, amort_years) ==
    Let(monthly_rate_of(annual_rate), LAMBDA monthly_rate :
        IF monthly_rate = Zero
        THEN RMul(RDiv(annual_payment, R(12)), R(total_payments_of(amort_years)))
        ELSE present_value_of(RDiv(annual_payment, R(12)), monthly_rate,
                              total_payments_of(amort_years)))

\* lines 41-45; "inf" stands for float('inf')
calculate_dscr(noi, annual_debt_service) ==
    IF annual_debt_service = Zero THEN "inf" ELSE RDiv(noi, annual_debt_service)

---------------------------------------------------------------------------
(* Calls of the balance functions for elapsed years 0, 1, 2, ... of one    *)
(* loan, as the cash-flow table makes them year after year.                *)

MaxLoanYear == 3

PrincipalSet == {1, 60, 100}

\* <<annual_rate, term_years>>.  (1 + monthly_rate) ** (12 * term_years) is kept
\* exactly, which fits TLC's 32-bit integers for these loans only.
LoanTermsSet ==
    {<<0, 1>>, <<0, 2>>, <<0, 3>>, <<400, 1>>, <<600, 1>>, <<1200, 1>>, <<1200, 2>>}

LoanInputs ==
    [loan_amount : PrincipalSet, terms : LoanTermsSet, is_io : BOOLEAN]

InitLoan ==
    /\ pc = "loan_calls"
    /\ loan_in \in LoanInputs
    /\ balance = <<>>
    /\ acq = Idle
    /\ refi_in = Idle
    /\ refi = Idle
    /\ wf_in = Idle
    /\ lp_cumulative_deficit = Zero
    /\ gp_cumulative_deficit = Zero
    /\ lp_cumulative_distributions = Zero
    /\ gp_cumulative_distributions = Zero
    /\ waterfall_data = <<>>
    /\ dist = Idle
    /\ dist_in = Idle
    /\ NoLease
    /\ NoExit
    /\ NoApp

\* The balances at elapsed year Len(balance)
BalanceCall ==
    /\ pc = "loan_calls"
    /\ Len(balance) <= MaxLoanYear
    /\ balance' = Append(balance,
          [year |-> Len(balance),
           perm |-> calculate_perm_loan_balance(R(loan_in.loan_amount), R(loan_in.terms[1]),
                                                loan_in.terms[2], Len(balance)),
           bridge |-> calculate_bridge_loan_balance(R(loan_in.loan_amount),
                                                    R(loan_in.terms[1]), loan_in.terms[2],
                                                    Len(balance), loan_in.is_io)])
    /\ UNCHANGED <<pc, wf_in, wf_state, dist, dist_in, loan_in, acq, refi_in, refi, lease_vars, exit_vars, app_vars>>

NextLoan == BalanceCall

SpecLoan == InitLoan /\ [][NextLoan]_vars

---------------------------------------------------------------------------
(* financing.py: calculate_refinance, and the acquisition loan sizing of   *)
(* the buy-and-hold pipeline (app_v2.0_WIP.py).                            *)

\* lines 132-142: the property value at refinance (refi_cap_rate # 0)
property_value_of(a) ==
    IF a.refi_valuation_method = "Based on Cap Rate"
    THEN RDiv(a.noi_at_refi, Pct(a.refi_cap_rate))
    ELSE IF a.refi_valuation_method = "Fixed Property Value"
    THEN a.fixed_refi_value
    ELSE RMul(a.purchase_price, RPow(RAdd(One, Pct(a.appreciation_rate)), a.years_to_refi))

\* financing.py line 145, app line 555
max_loan_by_ltv_of(property_value, perm_ltv) == RMul(property_value, Pct(perm_ltv))

\* financing.py lines 148-151, app lines 558-560 (target_dscr # 0)
max_loan_by_dscr_of(noi, target_dscr, perm_rate, perm_amort) ==
    calculate_loan_from_payment(RDiv(noi, target_dscr), perm_rate, perm_amort)

\* A slip at lines 155 and 158: min and max exchanged.
select_loan_exchanged(max_loan_by_ltv, max_loan_by_dscr, use_conservative) ==
    IF use_conservative
    THEN RMax(max_loan_by_ltv, max_loan_by_dscr)
    ELSE RMin(max_loan_by_ltv, max_loan_by_dscr)

\* financing.py lines 154-155, 157-158, app lines 563-566
select_loan(max_loan_by_ltv, max_loan_by_dscr, use_conservative) ==
    IF use_conservative
    THEN RMin(max_loan_by_ltv, max_loan_by_dscr)
    ELSE RMax(max_loan_by_ltv, max_loan_by_dscr)

\* lines 156, 159
binding_constraint_of(max_loan_by_ltv, max_loan_by_dscr, use_conservative) ==
    IF use_conservative
    THEN IF RLt(max_loan_by_ltv, max_loan_by_dscr) THEN "LTV" ELSE "DSCR"
    ELSE IF RGt(max_loan_by_ltv, max_loan_by_dscr) THEN "LTV" ELSE "DSCR"

\* lines 131-159: steps 1 to 4
refinance_sizing(a) ==
    Let(property_value_of(a), LAMBDA property_value :
    Let(max_loan_by_ltv_of(property_value, a.perm_ltv), LAMBDA max_loan_by_ltv :
    Let(max_loan_by_dscr_of(a.noi_at_refi, a.target_dscr, a.perm_rate, a.perm_amort),
        LAMBDA max_loan_by_dscr :
        [property_value |-> property_value,
         max_loan_by_ltv |-> max_loan_by_ltv,
         max_loan_by_dscr |-> max_loan_by_dscr,
         new_loan_amount |-> select_loan(max_loan_by_ltv, max_loan_by_dscr,
                                         a.use_conservative),
         binding_constraint |-> binding_constraint_of(max_loan_by_ltv, max_loan_by_dscr,
                                                      a.use_conservative)])))

\* lines 162-169: steps 5 and 6, on the loan of step 4
refinance_costs(a, z) ==
    Let(RMul(a.bridge_balance, Pct(a.bridge_prepay_penalty_pct)), LAMBDA prepayment_penalty :
    Let(RMul(z.new_loan_amount, Pct(a.perm_orig_points)), LAMBDA perm_origination :
    Let(RAdd(RAdd(prepayment_penalty, perm_origination), a.refi_legal_costs),
        LAMBDA total_refi_costs :
        [prepayment_penalty |-> prepayment_penalty,
         perm_origination |-> perm_origination,
         total_refi_costs |-> total_refi_costs,
         bridge_payoff |-> a.bridge_balance,
         net_proceeds_before_cashout_limit |->
             RSub(RSub(z.new_loan_amount, a.bridge_balance), total_refi_costs)])))

\* A slip at line 174: the costs are left out of the reduced loan.
loan_without_cashout_payoff_only(bridge_balance, total_refi_costs) == bridge_balance

\* line 174
loan_without_cashout(bridge_balance, total_refi_costs) ==
    RAdd(bridge_balance, total_refi_costs)

\* A slip at line 182: the percentage is not applied.
max_cashout_allowed_whole_gain(equity_gained, max_cashout_pct) == equity_gained

\* line 182
max_cashout_allowed_of(equity_gained, max_cashout_pct) ==
    RMul(equity_gained, Pct(max_cashout_pct))

\* lines 181-193: cash-out allowed and positive proceeds before the limit
cashout_allowed_branch(a, z, c) ==
    Let(max_cashout_allowed_of(RSub(z.property_value, a.purchase_price), a.max_cashout_pct),
        LAMBDA max_cashout_allowed :
        IF RGt(c.net_proceeds_before_cashout_limit, max_cashout_allowed)
        THEN [new_loan_amount |-> RAdd(RAdd(a.bridge_balance, c.total_refi_costs),
                                       max_cashout_allowed),
              net_proceeds |-> max_cashout_allowed,
              cashout_limited |-> TRUE]
        ELSE [new_loan_amount |-> z.new_loan_amount,
              net_proceeds |-> c.net_proceeds_before_cashout_limit,
              cashout_limited |-> FALSE])

\* lines 172-198: step 7
cashout_step(a, z, c) ==
    IF ~a.allow_cashout /\ RGt(c.net_proceeds_before_cashout_limit, Zero)
    THEN [new_loan_amount |-> loan_without_cashout(a.bridge_balance, c.total_refi_costs),
          net_proceeds |-> Zero,
          cashout_limited |-> TRUE]
    ELSE IF a.allow_cashout /\ RGt(c.net_proceeds_before_cashout_limit, Zero)
    THEN cashout_allowed_branch(a, z, c)
    ELSE [new_loan_amount |-> z.new_loan_amount,
          net_proceeds |-> c.net_proceeds_before_cashout_limit,
          cashout_limited |-> FALSE]

\* lines 201-237: step 8 and the returned dictionary.  sized_loan is the local
\* new_loan_amount as steps 4 to 6 see it, kept beside the returned keys.
refinance_result(a, z, c, k) ==
    Let(calculate_perm_loan_payment(k.new_loan_amount, a.perm_rate, a.perm_amort),
        LAMBDA final_debt_service :
        [property_value |-> z.property_value,
         noi_at_refi |-> a.noi_at_refi,
         max_loan_by_ltv |-> z.max_loan_by_ltv,
         max_loan_by_dscr |-> z.max_loan_by_dscr,
         binding_constraint |-> z.binding_constraint,
         sized_loan |-> z.new_loan_amount,
         new_loan_amount |-> k.new_loan_amount,
         bridge_payoff |-> c.bridge_payoff,
         prepayment_penalty |-> c.prepayment_penalty,
         perm_origination |-> c.perm_origination,
         refi_legal_costs |-> a.refi_legal_costs,
         total_refi_costs |-> c.total_refi_costs,
         gross_proceeds |-> k.new_loan_amount,
         net_proceeds |-> k.net_proceeds,
         cashout_limited |-> k.cashout_limited,
         final_debt_service |-> final_debt_service,
         final_dscr |-> IF RGt(final_debt_service, Zero)
                        THEN RDiv(a.noi_at_refi, final_debt_service)
                        ELSE "inf",
         final_ltv |-> IF RGt(z.property_value, Zero)
                       THEN RMul(RDiv(k.new_loan_amount, z.property_value), Hundred)
                       ELSE Zero,
         equity_before_refi |-> RSub(z.property_value, a.bridge_balance),
         equity_after_refi |-> RSub(z.property_value, k.new_loan_amount)])

\* lines 121-237
calculate_refinance(a) ==
    Let(refinance_sizing(a), LAMBDA z :
    Let(refinance_costs(a, z), LAMBDA c :
        refinance_result(a, z, c, cashout_step(a, z, c))))

\* app_v2.0_WIP.py lines 551-568: the buy-and-hold acquisition loan, sized on
\* the purchase price and the year-1 NOI
acquisition_loan(purchase_price, perm_ltv, year_1_noi, target_dscr, perm_rate, perm_amort, use_conservative) ==
    Let(max_loan_by_ltv_of(purchase_price, perm_ltv), LAMBDA max_loan_by_ltv :
    Let(max_loan_by_dscr_of(year_1_noi, target_dscr, perm_rate, perm_amort),
        LAMBDA max_loan_by_dscr :
    Let(select_loan(max_loan_by_ltv, max_loan_by_dscr, use_conservative),
        LAMBDA initial_loan_amount :
        [max_loan_by_ltv |-> max_loan_by_ltv,
         max_loan_by_dscr |-> max_loan_by_dscr,
         initial_loan_amount |-> initial_loan_amount,
         initial_debt_service |->
             calculate_perm_loan_payment(initial_loan_amount, perm_rate, perm_amort)])))

---------------------------------------------------------------------------
(* A buy-and-hold run sizes its acquisition loan and later refinances.     *)

NoiSet == {10, 12}
PurchasePriceSet == {100, 150}

\* the populated valuation method and its parameters
ValuationSet ==
    {[refi_valuation_method |-> "Based on Cap Rate", refi_cap_rate |-> 10,
      fixed_refi_value |-> 0, appreciation_rate |-> 0, years_to_refi |-> 2],
     [refi_valuation_method |-> "Fixed Property Value", refi_cap_rate |-> 0,
      fixed_refi_value |-> 20, appreciation_rate |-> 0, years_to_refi |-> 2],
     [refi_valuation_method |-> "Fixed Property Value", refi_cap_rate |-> 0,
      fixed_refi_value |-> 90, appreciation_rate |-> 0, years_to_refi |-> 2],
     [refi_valuation_method |-> "Fixed Property Value", refi_cap_rate |-> 0,
      fixed_refi_value |-> 200, appreciation_rate |-> 0, years_to_refi |-> 2],
     [refi_valuation_method |-> "Based on Original Purchase Price", refi_cap_rate |-> 0,
      fixed_refi_value |-> 0, appreciation_rate |-> 10, years_to_refi |-> 2]}

\* <<perm_rate, perm_amort>>, within the loans whose growth factor is kept exactly
PermTermsSet == {<<0, 1>>, <<0, 10>>, <<1200, 1>>}
PermLtvSet == {50, 75}
\* target_dscr as <<numerator, denominator>>: 1.0 and 1.25
TargetDscrSet == {<<1, 1>>, <<5, 4>>}
\* <<allow_cashout, max_cashout_pct>>
CashoutSet == {<<FALSE, 80>>, <<TRUE, 0>>, <<TRUE, 80>>}
BridgeBalanceSet == {0, 40, 70}
PrepayPenaltySet == {0, 1}
OrigPointsSet == {0, 1}
LegalCostsSet == {0, 5}

RefiInputs ==
    [noi : NoiSet, valuation : ValuationSet, purchase_price : PurchasePriceSet,
     perm_terms : PermTermsSet, perm_ltv : PermLtvSet, target_dscr : TargetDscrSet,
     use_conservative : BOOLEAN, cashout : CashoutSet, bridge_balance : BridgeBalanceSet,
     bridge_prepay_penalty_pct : PrepayPenaltySet, perm_orig_points : OrigPointsSet,
     refi_legal_costs : LegalCostsSet]

\* the arguments of calculate_refinance as floats
refi_args(i) ==
    [noi_at_refi |-> R(i.noi),
     refi_valuation_method |-> i.valuation.refi_valuation_method,
     refi_cap_rate |-> R(i.valuation.refi_cap_rate),
     fixed_refi_value |-> R(i.valuation.fixed_refi_value),
     purchase_price |-> R(i.purchase_price),
     years_to_refi |-> i.valuation.years_to_refi,
     appreciation_rate |-> R(i.valuation.appreciation_rate),
     perm_rate |-> R(i.perm_terms[1]),
     perm_ltv |-> R(i.perm_ltv),
     perm_amort |-> i.perm_terms[2],
     target_dscr |-> Frac(i.target_dscr[1], i.target_dscr[2]),
     use_conservative |-> i.use_conservative,
     allow_cashout |-> i.cashout[1],
     max_cashout_pct |-> R(i.cashout[2]),
     bridge_balance |-> R(i.bridge_balance),
     bridge_prepay_penalty_pct |-> R(i.bridge_prepay_penalty_pct),
     perm_orig_points |-> R(i.perm_orig_points),
     refi_legal_costs |-> R(i.refi_legal_costs)]

InitRefi ==
    /\ pc = "acquire"
    /\ refi_in \in RefiInputs
    /\ acq = Idle
    /\ refi = Idle
    /\ loan_in = Idle
    /\ balance = <<>>
    /\ dist = Idle
    /\ dist_in = Idle
    /\ wf_in = Idle
    /\ lp_cumulative_deficit = Zero
    /\ gp_cumulative_deficit = Zero
    /\ lp_cumulative_distributions = Zero
    /\ gp_cumulative_distributions = Zero
    /\ waterfall_data = <<>>
    /\ NoLease
    /\ NoExit
    /\ NoApp

\* app_v2.0_WIP.py lines 551-568
AcquisitionSizing ==
    /\ pc = "acquire"
    /\ acq' = acquisition_loan(R(refi_in.purchase_price), R(refi_in.perm_ltv),
                               R(refi_in.noi),
                               Frac(refi_in.target_dscr[1], refi_in.target_dscr[2]),
                               R(refi_in.perm_terms[1]), refi_in.perm_terms[2],
                               refi_in.use_conservative)
    /\ pc' = "refi_call"
    /\ UNCHANGED <<wf_in, wf_state, dist, dist_in, loan_in, balance, refi_in, refi, lease_vars, exit_vars, app_vars>>

\* financing.py lines 121-237
RefinanceCall ==
    /\ pc = "refi_call"
    /\ refi' = calculate_refinance(refi_args(refi_in))
    /\ pc' = "refi_returned"
    /\ UNCHANGED <<wf_in, wf_state, dist, dist_in, loan_in, balance, acq, refi_in, lease_vars, exit_vars, app_vars>>

NextRefi == AcquisitionSizing \/ RefinanceCall

SpecRefi == InitRefi /\ [][NextRefi]_vars

---------------------------------------------------------------------------
(* financing.py: check_refi_feasibility_with_lease.  The years are         *)
(* integers; the status strings are the source's without their emoji.      *)

years_at_refi_with_options_unscaled(years_at_refi_current, options_remaining, option_term) ==
    years_at_refi_current + options_remaining

years_at_refi_with_options_of(years_at_refi_current, options_remaining, option_term) ==
    years_at_refi_current + (options_remaining * option_term)

min_term_required_default == 7

check_refi_feasibility_with_lease(current_term_remaining, options_remaining, option_term, refi_year, min_term_required) ==
    LET years_at_refi_current == current_term_remaining - refi_year
        years_at_refi_with_options ==
            years_at_refi_with_options_of(years_at_refi_current, options_remaining,
                                          option_term)
    IN  IF years_at_refi_current >= min_term_required
        THEN [feasible |-> TRUE,
              status |-> "Feasible with current term",
              requirement |-> <<"None">>]
        ELSE IF years_at_refi_with_options >= min_term_required /\ options_remaining > 0
        THEN [feasible |-> TRUE,
              status |-> "Requires tenant to exercise renewal option",
              requirement |-> <<"Must secure renewal commitment before Year", refi_year>>]
        ELSE [feasible |-> FALSE,
              status |-> "Not feasible - insufficient lease term",
              requirement |-> <<"Cannot refinance - consider bridge loan only">>]

MaxTermRemaining == 12
MaxOptionsRemaining == 2
MaxRefiYear == 3
OptionTermSet == {1, 5}
MinTermSet == {3, 10}

FeasInputs ==
    [current_term_remaining : 0..MaxTermRemaining,
     options_remaining : 0..MaxOptionsRemaining,
     option_term : OptionTermSet,
     refi_year : 1..MaxRefiYear,
     pass_min_term : BOOLEAN,
     min_term_required : MinTermSet]

InitFeas ==
    /\ pc = "feas_call"
    /\ feas_in \in FeasInputs
    /\ feas = Idle
    /\ noi_in = Idle
    /\ noi_schedule = <<>>
    /\ dist = Idle
    /\ dist_in = Idle
    /\ NoWaterfall
    /\ NoFinancing
    /\ NoExit
    /\ NoApp

\* app_v2.0_WIP.py lines 611-614 call it without min_term_required
FeasibilityCall ==
    /\ pc = "feas_call"
    /\ feas' = check_refi_feasibility_with_lease(
                  feas_in.current_term_remaining, feas_in.options_remaining,
                  feas_in.option_term, feas_in.refi_year,
                  IF feas_in.pass_min_term THEN feas_in.min_term_required
                                           ELSE min_term_required_default)
    /\ pc' = "feas_returned"
    /\ UNCHANGED <<wf_in, wf_state, dist, dist_in, fin_vars, feas_in, noi_in,
                   noi_schedule, exit_vars, app_vars>>

NextFeas == FeasibilityCall

SpecFeas == InitFeas /\ [][NextFeas]_vars

---------------------------------------------------------------------------
(* cash_flows.py: calculate_multi_tenant_noi.  A tenant is the dict the    *)
(* app keeps in st.session_state['tenants'] (app_v2.0_WIP.py lines         *)
(* 161-251); the strings are built as the f-strings of the source build    *)
(* them.                                                                   *)

FixedBumps == "Fixed Bumps Every N Years"
AnnualEscalator == "Annual Escalator (%)"
Flat == "Flat (No Increases)"

option_number_floored(years_past_expiration, option_term) ==
    years_past_expiration \div option_term + 1

\* line 171
option_number_of(years_past_expiration, option_term) ==
    (years_past_expiration - 1) \div option_term + 1

years_since_start_next_year(tenant, year) == tenant.years_elapsed + year

\* line 188
years_since_start_of(tenant, year) == tenant.years_elapsed + year - 1

\* lines 163-181: the entry appended to lease_statuses, and whether the loop
\* body goes on to the rent (no 'continue')
tenant_lease_status(tenant, year) ==
    IF tenant.status = "Vacant"
    THEN [text |-> tenant.name \o ": Vacant", pays |-> FALSE]
    ELSE IF year > tenant.lease_expiration_year
    THEN LET years_past_expiration == year - tenant.lease_expiration_year
             option_number == option_number_of(years_past_expiration, tenant.option_term)
         IN  IF option_number <= tenant.renewal_options
             THEN [text |-> tenant.name \o ": Option " \o ToString(option_number),
                   pays |-> TRUE]
             ELSE [text |-> tenant.name \o ": EXPIRED", pays |-> FALSE]
    ELSE [text |-> tenant.name \o ": Active", pays |-> TRUE]

\* lines 184-202
tenant_current_rent(tenant, year) ==
    LET base_rent == R(tenant.annual_rent)
        years_since_start == years_since_start_of(tenant, year)
    IN  IF tenant.escalation_type = FixedBumps
        THEN IF tenant.bump_frequency > 0
             THEN RMul(base_rent,
                       RPow(RAdd(One, Pct(R(tenant.bump_percentage))),
                            years_since_start \div tenant.bump_frequency))
             ELSE base_rent
        ELSE IF tenant.escalation_type = AnnualEscalator
        THEN RMul(base_rent,
                  RPow(RAdd(One, Pct(R(tenant.annual_escalator))), years_since_start))
        ELSE base_rent

\* lines 159-204: the inner loop over the first n tenants
RECURSIVE tenants_loop(_, _, _)
tenants_loop(tenants_list, n, year) ==
    IF n = 0
    THEN [total_rent |-> Zero, lease_statuses |-> <<>>]
    ELSE LET before == tenants_loop(tenants_list, n - 1, year)
             tenant == tenants_list[n]
             s == tenant_lease_status(tenant, year)
         IN  [total_rent |-> IF s.pays
                             THEN RAdd(before.total_rent, tenant_current_rent(tenant, year))
                             ELSE before.total_rent,
              lease_statuses |-> Append(before.lease_statuses, s.text)]

\* " | ".join(lease_statuses)
RECURSIVE join(_)
join(strings) ==
    IF Len(strings) = 1 THEN strings[1]
    ELSE join(SubSeq(strings, 1, Len(strings) - 1)) \o " | " \o strings[Len(strings)]

\* lines 206-210
noi_row(tenants_list, year) ==
    LET l == tenants_loop(tenants_list, Len(tenants_list), year)
    IN  [Year |-> year,
         NOI |-> l.total_rent,
         Lease_Status |-> IF l.lease_statuses # <<>> THEN join(l.lease_statuses)
                                                    ELSE "All Vacant"]

MaxHoldingPeriod == 6
MaxTenants == 2

\* Tenants as the sidebar of the app can produce them (lines 210-251).
TenantSet ==
    {[name |-> "A", status |-> "Occupied", annual_rent |-> 100000,
      lease_expiration_year |-> 5, years_elapsed |-> 0, renewal_options |-> 2,
      option_term |-> 5, escalation_type |-> FixedBumps, bump_frequency |-> 5,
      bump_percentage |-> 10, annual_escalator |-> 0],
     [name |-> "B", status |-> "Occupied", annual_rent |-> 50,
      lease_expiration_year |-> 1, years_elapsed |-> 3, renewal_options |-> 1,
      option_term |-> 2, escalation_type |-> AnnualEscalator, bump_frequency |-> 0,
      bump_percentage |-> 0, annual_escalator |-> 100],
     [name |-> "C", status |-> "Occupied", annual_rent |-> 20,
      lease_expiration_year |-> 0, years_elapsed |-> 0, renewal_options |-> 0,
      option_term |-> 1, escalation_type |-> Flat, bump_frequency |-> 0,
      bump_percentage |-> 0, annual_escalator |-> 0],
     [name |-> "D", status |-> "Occupied", annual_rent |-> 40,
      lease_expiration_year |-> 2, years_elapsed |-> 4, renewal_options |-> 2,
      option_term |-> 1, escalation_type |-> FixedBumps, bump_frequency |-> 2,
      bump_percentage |-> 50, annual_escalator |-> 0],
     [name |-> "V", status |-> "Vacant", annual_rent |-> 0,
      lease_expiration_year |-> 0, years_elapsed |-> 0, renewal_options |-> 0,
      option_term |-> 0, escalation_type |-> FixedBumps, bump_frequency |-> 0,
      bump_percentage |-> 0, annual_escalator |-> 0]}

TenantLists == UNION {[1..n -> TenantSet] : n \in 0..MaxTenants}

NoiInputs == [tenants_list : TenantLists, holding_period : 1..MaxHoldingPeriod]

InitNoi ==
    /\ pc = "noi_loop"
    /\ noi_in \in NoiInputs
    /\ noi_schedule = <<>>
    /\ feas_in = Idle
    /\ feas = Idle
    /\ dist = Idle
    /\ dist_in = Idle
    /\ NoWaterfall
    /\ NoFinancing
    /\ NoExit
    /\ NoApp

\* line 158: one iteration of the loop over the years
MultiTenantYear ==
    /\ pc = "noi_loop"
    /\ Len(noi_schedule) < noi_in.holding_period
    /\ noi_schedule' = Append(noi_schedule,
                              noi_row(noi_in.tenants_list, Len(noi_schedule) + 1))
    /\ UNCHANGED <<pc, wf_in, wf_state, dist, dist_in, fin_vars, feas_in, feas, noi_in,
                   exit_vars, app_vars>>

\* line 212
MultiTenantReturn ==
    /\ pc = "noi_loop"
    /\ Len(noi_schedule) = noi_in.holding_period
    /\ pc' = "noi_returned"
    /\ UNCHANGED <<wf_in, wf_state, dist, dist_in, fin_vars, lease_vars, exit_vars, app_vars>>

NextNoi == MultiTenantYear \/ MultiTenantReturn

SpecNoi == InitNoi /\ [][NextNoi]_vars

---------------------------------------------------------------------------
(* cash_flows.py: calculate_noi_projection_with_lease, the single-tenant   *)
(* projector of the sensitivity analysis.                                  *)

bumps_already_fired_none(rent_structure_type, bump_frequency, years_elapsed) == 0

\* lines 66-69
bumps_already_fired_of(rent_structure_type, bump_frequency, years_elapsed) ==
    IF rent_structure_type = FixedBumps /\ bump_frequency > 0
    THEN years_elapsed \div bump_frequency
    ELSE 0

\* lines 76-80
lease_status_of(year, current_term_remaining) ==
    IF year > current_term_remaining
    THEN "Renewal Year " \o ToString(year - current_term_remaining)
    ELSE "Current Term"

\* lines 73, 83-93
lease_noi(a, year) ==
    LET bumps_already_fired ==
            bumps_already_fired_of(a.rent_structure_type, a.bump_frequency, a.years_elapsed)
        years_from_original_start == a.years_elapsed + year
    IN  IF a.rent_structure_type = FixedBumps /\ a.bump_frequency > 0
        THEN LET total_bumps_at_this_point ==
                     (years_from_original_start - 1) \div a.bump_frequency
                 incremental_bumps == total_bumps_at_this_point - bumps_already_fired
             IN  RMul(R(a.base_rent),
                      RPow(RAdd(One, Pct(R(a.bump_pct))), incremental_bumps))
        ELSE IF a.rent_structure_type = AnnualEscalator
        THEN RMul(R(a.base_rent), RPow(RAdd(One, Pct(R(a.annual_escalator))), year - 1))
        ELSE R(a.base_rent)

\* lines 95-102
lease_row(a, year) ==
    [Year |-> year,
     NOI |-> lease_noi(a, year),
     Lease_Status |-> lease_status_of(year, a.current_term_remaining),
     Years_Remaining |-> IF a.current_term_remaining - year > 0
                         THEN a.current_term_remaining - year ELSE 0]

MaxYearsElapsed == 4
BaseRentSet == {0, 100}
BumpFrequencySet == {0, 1, 2, 5}
BumpPctSet == {0, 50}
EscalatorSet == {0, 100}
TermRemainingSet == {0, 2}

LeaseNoiInputs ==
    [base_rent : BaseRentSet,
     rent_structure_type : {FixedBumps, AnnualEscalator, Flat},
     bump_frequency : BumpFrequencySet,
     bump_pct : BumpPctSet,
     annual_escalator : EscalatorSet,
     years : 1..MaxHoldingPeriod,
     current_term_remaining : TermRemainingSet,
     years_elapsed : 0..MaxYearsElapsed]

InitLeaseNoi ==
    /\ pc = "lease_noi_loop"
    /\ noi_in \in LeaseNoiInputs
    /\ noi_schedule = <<>>
    /\ feas_in = Idle
    /\ feas = Idle
    /\ dist = Idle
    /\ dist_in = Idle
    /\ NoWaterfall
    /\ NoFinancing
    /\ NoExit
    /\ NoApp

\* line 71: one iteration of the loop over the years
LeaseNoiYear ==
    /\ pc = "lease_noi_loop"
    /\ Len(noi_schedule) < noi_in.years
    /\ noi_schedule' = Append(noi_schedule, lease_row(noi_in, Len(noi_schedule) + 1))
    /\ UNCHANGED <<pc, wf_in, wf_state, dist, dist_in, fin_vars, feas_in, feas, noi_in,
                   exit_vars, app_vars>>

\* line 104
LeaseNoiReturn ==
    /\ pc = "lease_noi_loop"
    /\ Len(noi_schedule) = noi_in.years
    /\ pc' = "lease_noi_returned"
    /\ UNCHANGED <<wf_in, wf_state, dist, dist_in, fin_vars, lease_vars, exit_vars, app_vars>>

NextLeaseNoi == LeaseNoiYear \/ LeaseNoiReturn

SpecLeaseNoi == InitLeaseNoi /\ [][NextLeaseNoi]_vars

---------------------------------------------------------------------------
(* app_v2.0_WIP.py: _calc_irr_local, the IRR by bisection that the exit    *)
(* waterfall uses (lines 1147-1162; quick_deal_irr holds a copy, lines     *)
(* 1649-1663).  A cash-flow stream is a sequence whose entry t + 1 is the  *)
(* flow of year t.  None is the record with defined = FALSE.               *)

\* sum(arr[1:])
RECURSIVE sum_after_first(_, _)
sum_after_first(cashflows, n) ==
    IF n <= 1 THEN Zero ELSE RAdd(sum_after_first(cashflows, n - 1), cashflows[n])

\* line 1155: sum(cf / (1 + mid)**t for t, cf in enumerate(arr)), from year t
\* on and discounted to year t
RECURSIVE npv_from(_, _, _)
npv_from(cashflows, t, mid) ==
    IF t = Len(cashflows) - 1 THEN cashflows[t + 1]
    ELSE RAdd(cashflows[t + 1], RDiv(npv_from(cashflows, t + 1, mid), RAdd(One, mid)))

irr_low == Frac(-1, 2)
irr_high == R(5)
irr_iterations == 200
irr_tolerance == Frac(1, 100)

RAbs(a) == IF a[1] < 0 THEN RNeg(a) ELSE a

\* lines 1153-1162: the loop with n iterations left
RECURSIVE irr_bisect(_, _, _, _)
RECURSIVE irr_test(_, _, _, _, _, _)

\* lines 1156-1162: one iteration once mid and val are computed
irr_test(cashflows, low, high, n, mid, val) ==
    IF RLt(RAbs(val), irr_tolerance) \/ n = 1 THEN mid
    ELSE IF RGt(val, Zero) THEN irr_bisect(cashflows, mid, high, n - 1)
    ELSE irr_bisect(cashflows, low, mid, n - 1)

irr_bisect(cashflows, low, high, n) ==
    Let(RDiv(RAdd(low, high), R(2)),
        LAMBDA mid : irr_test(cashflows, low, high, n, mid, npv_from(cashflows, 0, mid)))

NoIrr == [defined |-> FALSE, irr |-> Zero]

calc_irr_local(cashflows) ==
    IF RLe(sum_after_first(cashflows, Len(cashflows)), Zero)
    THEN NoIrr
    ELSE [defined |-> TRUE,
          irr |-> irr_bisect(cashflows, irr_low, irr_high, irr_iterations)]

\* lines 1387-1414
calc_irr(cashflows) ==
    IF Len(cashflows) < 2 THEN NoIrr
    ELSE IF RLe(sum_after_first(cashflows, Len(cashflows)), Zero) THEN NoIrr
    ELSE [defined |-> TRUE,
          irr |-> irr_bisect(cashflows, irr_low, irr_high, irr_iterations)]

\* lines 1648-1661: _irr
quick_irr(cfs) ==
    IF RLe(sum_after_first(cfs, Len(cfs)), Zero) THEN NoIrr
    ELSE [defined |-> TRUE, irr |-> irr_bisect(cfs, irr_low, irr_high, irr_iterations)]

---------------------------------------------------------------------------
(* app_v2.0_WIP.py: the exit waterfall on the gross equity proceeds of the *)
(* sale (lines 1107-1263), one step per tier.  waterfall_df is the table   *)
(* of the annual waterfall, waterfall_data.                                *)

\* waterfall_df[column].sum() over the first n rows
RECURSIVE column_sum(_, _, _)
column_sum(rows, n, column) ==
    IF n = 0 THEN Zero ELSE RAdd(column_sum(rows, n - 1, column), rows[n][column])

\* line 1107
gross_equity_proceeds_of(sale_price, exit_loan_balance, total_sale_costs) ==
    RSub(RSub(sale_price, exit_loan_balance), total_sale_costs)

\* lines 1111-1115, tier 1: return of capital
capital_return_amounts(lp_equity, gp_equity, gross_equity_proceeds, total_equity_invested, capital_returned) ==
        [gross_equity_proceeds |-> gross_equity_proceeds,
         total_equity_invested |-> total_equity_invested,
         capital_returned |-> capital_returned,
         lp_capital_return |->
             IF RGt(total_equity_invested, Zero)
             THEN RMul(capital_returned, RDiv(lp_equity, total_equity_invested))
             ELSE Zero,
         gp_capital_return |->
             IF RGt(total_equity_invested, Zero)
             THEN RMul(capital_returned, RDiv(gp_equity, total_equity_invested))
             ELSE Zero,
         remaining_after_capital |->
             RMax(Zero, RSub(gross_equity_proceeds, total_equity_invested))]

exit_return_of_capital(lp_equity, gp_equity, gross_equity_proceeds) ==
    Let(RAdd(lp_equity, gp_equity), LAMBDA total_equity_invested :
        capital_return_amounts(lp_equity, gp_equity, gross_equity_proceeds,
                               total_equity_invested,
                               RMin(gross_equity_proceeds, total_equity_invested)))

pref_catchup_share_even(pref_catchup_paid, deficit, total_pref_deficit) ==
    RDiv(pref_catchup_paid, R(2))

\* lines 1124-1125
pref_catchup_share(pref_catchup_paid, deficit, total_pref_deficit) ==
    RMul(pref_catchup_paid, RDiv(deficit, total_pref_deficit))

\* lines 1118-1129, tier 2: the carried preferred-return deficit
pref_catchup_amounts(remaining_after_capital, final_lp_deficit_exit, final_gp_deficit_exit, total_pref_deficit, pref_catchup_paid) ==
        [final_lp_deficit_exit |-> final_lp_deficit_exit,
         final_gp_deficit_exit |-> final_gp_deficit_exit,
         total_pref_deficit |-> total_pref_deficit,
         pref_catchup_paid |-> pref_catchup_paid,
         lp_pref_catchup |->
             IF RGt(total_pref_deficit, Zero)
             THEN pref_catchup_share(pref_catchup_paid, final_lp_deficit_exit,
                                     total_pref_deficit)
             ELSE Zero,
         gp_pref_catchup |->
             IF RGt(total_pref_deficit, Zero)
             THEN pref_catchup_share(pref_catchup_paid, final_gp_deficit_exit,
                                     total_pref_deficit)
             ELSE Zero,
         remaining_after_pref |-> RSub(remaining_after_capital, pref_catchup_paid)]

exit_pref_deficits(remaining_after_capital, final_lp_deficit_exit, final_gp_deficit_exit) ==
    Let(RAdd(final_lp_deficit_exit, final_gp_deficit_exit), LAMBDA total_pref_deficit :
        pref_catchup_amounts(remaining_after_capital, final_lp_deficit_exit,
                             final_gp_deficit_exit, total_pref_deficit,
                             RMin(remaining_after_capital, total_pref_deficit)))

exit_pref_catchup(rows, remaining_after_capital) ==
    exit_pref_deficits(remaining_after_capital, rows[Len(rows)].LP_Pref_Deficit,
                       rows[Len(rows)].GP_Pref_Deficit)

\* lines 1134-1141
catchup_needed_of(rows, gp_profit_share) ==
    LET n == Len(rows)
        total_annual_profits ==
            RAdd(RAdd(column_sum(rows, n, "LP_Split"), column_sum(rows, n, "GP_Split")),
                 column_sum(rows, n, "GP_Catch_up"))
        gp_share_of_annual ==
            RAdd(column_sum(rows, n, "GP_Catch_up"), column_sum(rows, n, "GP_Split"))
        target_gp_share == RMul(total_annual_profits, Pct(gp_profit_share))
    IN  RMax(Zero, RSub(target_gp_share, gp_share_of_annual))

\* lines 1132-1143, tier 3: the GP catch-up against the annual history
exit_gp_catchup(rows, include_catchup, gp_profit_share, remaining_after_pref) ==
    IF include_catchup /\ RGt(remaining_after_pref, Zero) /\ RGt(gp_profit_share, Zero)
    THEN Let(catchup_needed_of(rows, gp_profit_share), LAMBDA catchup_needed :
           Let(RMin(remaining_after_pref, catchup_needed), LAMBDA gp_exit_catchup :
             [catchup_needed |-> catchup_needed,
              gp_exit_catchup |-> gp_exit_catchup,
              remaining_after_catchup |-> RSub(remaining_after_pref, gp_exit_catchup)]))
    ELSE [catchup_needed |-> Zero,
          gp_exit_catchup |-> Zero,
          remaining_after_catchup |-> remaining_after_pref]

\* lines 1176-1181: the deal stream of the promote test
deal_cfs_p(rows, total_invested_deal, gross_equity_proceeds) ==
    <<RNeg(total_invested_deal)>> \o
    [i \in 1..Len(rows) |->
        LET annual_deal == RAdd(rows[i].LP_Total, rows[i].GP_Total)
        IN  IF i = Len(rows) THEN RAdd(annual_deal, gross_equity_proceeds)
            ELSE annual_deal]

promote_hurdle_reached(actual_deal_irr, promote_hurdle_irr) ==
    /\ actual_deal_irr.defined
    /\ RGe(RMul(actual_deal_irr.irr, Hundred), promote_hurdle_irr)

\* line 1184
promote_hurdle_exceeded(actual_deal_irr, promote_hurdle_irr) ==
    /\ actual_deal_irr.defined
    /\ RGt(RMul(actual_deal_irr.irr, Hundred), promote_hurdle_irr)

\* A slip at lines 1258-1259: LP's part is not reduced by the GP share.
residual_split_lp_unreduced(remaining, gp_share) ==
    [lp_exit_split |-> remaining,
     gp_exit_split |-> RMul(remaining, Pct(gp_share))]

\* lines 1185-1186, 1189-1190, 1223-1224, 1258-1259: the residual at a GP share
residual_split(remaining, gp_share) ==
    [lp_exit_split |-> RMul(remaining, RDiv(RSub(Hundred, gp_share), Hundred)),
     gp_exit_split |-> RMul(remaining, Pct(gp_share))]

\* lines 1185-1190 and the flags, once the split s is known
tier4_result(s, actual_deal_irr, promote_triggered, lp_cap_hit) ==
    [lp_exit_split |-> s.lp_exit_split,
     gp_exit_split |-> s.gp_exit_split,
     actual_deal_irr |-> actual_deal_irr,
     promote_triggered |-> promote_triggered,
     lp_cap_hit |-> lp_cap_hit]

\* lines 1184-1190
promote_split(a, remaining, actual_deal_irr, triggered) ==
    tier4_result(residual_split(remaining, IF triggered THEN R(a.gp_promote_share)
                                                        ELSE R(a.gp_profit_share)),
                 actual_deal_irr, triggered, FALSE)

\* lines 1173-1190
irr_based_promote(a, rows, t, remaining) ==
    Let(calc_irr_local(deal_cfs_p(rows, RAdd(R(a.lp_equity), R(a.gp_equity)),
                                  t.gross_equity_proceeds)),
        LAMBDA actual_deal_irr :
            promote_split(a, remaining, actual_deal_irr,
                          promote_hurdle_exceeded(actual_deal_irr, a.promote_hurdle_irr)))

\* lines 1203-1212: _lp_irr_given_exit_share
lp_irr_given_exit_share(rows, lp_equity, lp_fixed_exit, lp_residual_share) ==
    calc_irr_local(
        <<RNeg(lp_equity)>> \o
        [i \in 1..Len(rows) |->
            IF i = Len(rows)
            THEN RAdd(rows[i].LP_Total, RAdd(lp_fixed_exit, lp_residual_share))
            ELSE rows[i].LP_Total])

lp_cap_iterations == 200
lp_cap_tolerance == Frac(1, 10000)

\* lines 1232-1244: the search with n iterations left; c holds what the
\* closure _lp_irr_given_exit_share reads and the target.  Once low_r = high_r
\* every later mid_r is that same amount, so the iterations left are not
\* unfolded.
RECURSIVE lp_cap_search(_, _, _, _)
RECURSIVE lp_cap_test(_, _, _, _, _, _)

\* lines 1235-1244: one iteration once mid_r and the IRR at mid_r are computed
lp_cap_test(c, low_r, high_r, n, mid_r, irr_at_mid) ==
    IF low_r = high_r THEN mid_r
    ELSE IF ~irr_at_mid.defined
    THEN IF n = 1 THEN mid_r ELSE lp_cap_search(c, mid_r, high_r, n - 1)
    ELSE IF RLt(RAbs(RSub(irr_at_mid.irr, c.target_cap)), lp_cap_tolerance) \/ n = 1
    THEN mid_r
    ELSE IF RLt(irr_at_mid.irr, c.target_cap)
    THEN lp_cap_search(c, mid_r, high_r, n - 1)
    ELSE lp_cap_search(c, low_r, mid_r, n - 1)

lp_cap_search(c, low_r, high_r, n) ==
    Let(RDiv(RAdd(low_r, high_r), R(2)), LAMBDA mid_r :
        lp_cap_test(c, low_r, high_r, n, mid_r,
                    lp_irr_given_exit_share(c.rows, c.lp_equity, c.lp_fixed_exit, mid_r)))

\* lines 1246-1249
lp_base_portion_of(gp_profit_share, mid_r) ==
    IF RLt(gp_profit_share, Hundred)
    THEN RDiv(mid_r, RDiv(RSub(Hundred, gp_profit_share), Hundred))
    ELSE Zero

\* lines 1245-1254: the amounts once the search has ended at mid_r
lp_cap_amounts(gp_profit_share, remaining, mid_r) ==
    Let(lp_base_portion_of(gp_profit_share, mid_r), LAMBDA lp_base_portion :
        [lp_exit_split |-> mid_r,
         gp_exit_split |-> RAdd(RSub(lp_base_portion, mid_r),
                                RSub(remaining, lp_base_portion))])

\* lines 1221-1254: the three cases once the two bounding LP IRRs are known
lp_cap_cases(a, c, remaining, under_cap, lp_irr_none) ==
    tier4_result(IF under_cap
                 THEN residual_split(remaining, R(a.gp_profit_share))
                 ELSE IF lp_irr_none.defined /\ RGe(lp_irr_none.irr, c.target_cap)
                 THEN [lp_exit_split |-> Zero, gp_exit_split |-> remaining]
                 ELSE lp_cap_amounts(R(a.gp_profit_share), remaining,
                                     lp_cap_search(c, Zero, remaining, lp_cap_iterations)),
                 NoIrr, FALSE, ~under_cap)

\* lines 1214-1221
lp_cap_bounds(a, c, remaining, lp_irr_all) ==
    lp_cap_cases(a, c, remaining,
                 lp_irr_all.defined /\ RLe(lp_irr_all.irr, c.target_cap),
                 lp_irr_given_exit_share(c.rows, c.lp_equity, c.lp_fixed_exit, Zero))

\* lines 1198-1219: what the closure reads and the target
lp_cap_context(a, rows, t) ==
    [rows |-> rows,
     lp_equity |-> R(a.lp_equity),
     lp_fixed_exit |-> RAdd(t.lp_capital_return, t.lp_pref_catchup),
     target_cap |-> RDiv(a.lp_irr_cap, Hundred)]

\* lines 1193-1254
lp_return_cap(a, rows, t, remaining) ==
    Let(lp_cap_context(a, rows, t), LAMBDA c :
        lp_cap_bounds(a, c, remaining,
                      lp_irr_given_exit_share(rows, c.lp_equity, c.lp_fixed_exit, remaining)))

\* lines 1256-1259
no_promote(a, remaining) ==
    tier4_result(residual_split(remaining, R(a.gp_profit_share)), NoIrr, FALSE, FALSE)

\* lines 1165-1259, tier 4 by promote mode
tier4_split(a, rows, t) ==
    IF a.promote_mode = "IRR-Based Promote"
    THEN irr_based_promote(a, rows, t, t.remaining_after_catchup)
    ELSE IF a.promote_mode = "LP Return Cap"
    THEN lp_return_cap(a, rows, t, t.remaining_after_catchup)
    ELSE no_promote(a, t.remaining_after_catchup)

\* lines 1262-1263: the exit totals
exit_totals(t, r) ==
    r @@ [lp_exit_total |-> RAdd(RAdd(t.lp_capital_return, t.lp_pref_catchup),
                                 r.lp_exit_split),
          gp_exit_total |-> RAdd(RAdd(RAdd(t.gp_capital_return, t.gp_pref_catchup),
                                      t.gp_exit_catchup), r.gp_exit_split)]

\* lines 1165-1263, tier 4 and the exit totals; t holds the locals of tiers 1-3
exit_residual_split(a, rows, t) ==
    Let(tier4_split(a, rows, t), LAMBDA r : exit_totals(t, r))

NoPromote == "None"
IrrBasedPromote == "IRR-Based Promote"
LpReturnCap == "LP Return Cap"

\* lines 452, 456, 459-461: the settings of the modes that are not selected
unused_rate == R(999)

ExitEquitySet == {<<64, 16>>, <<16, 4>>}
ExitCashSet == {<<0>>, <<4>>, <<30, 30>>, <<-5, 10>>, <<0, 0, 4>>}
SalePriceSet == {0, 10, 50, 100, 300}
ExitLoanBalanceSet == {0, 20}
SaleCostsSet == {0, 5}
ExitPrefRateSet == {0, 10}
ExitGpShareSet == {0, 20, 50}

exit_input(equity, cash, sale, terms, mode) ==
    [lp_equity |-> equity[1], gp_equity |-> equity[2],
     cash_available |-> cash,
     sale_price |-> sale[1], exit_loan_balance |-> sale[2], total_sale_costs |-> sale[3],
     pref_rate |-> terms[1], gp_profit_share |-> terms[2], include_catchup |-> terms[3],
     promote_mode |-> mode[1], promote_hurdle_irr |-> mode[2],
     gp_promote_share |-> IF mode[1] = IrrBasedPromote THEN mode[3] ELSE terms[2],
     lp_irr_cap |-> mode[4]]

\* Plain split: any deal.
NoPromoteInputs ==
    {exit_input(equity, cash, sale, terms, <<NoPromote, unused_rate, 0, unused_rate>>) :
        equity \in ExitEquitySet, cash \in ExitCashSet,
        sale \in SalePriceSet \X ExitLoanBalanceSet \X SaleCostsSet,
        terms \in ExitPrefRateSet \X ExitGpShareSet \X BOOLEAN}

\* Deals whose deal IRR the bisection reaches in one or two halvings (225% and
\* 87.5%), and two deals without an IRR (nothing is received after year 0).
PromoteDealSet ==
    {<<<<64, 16>>, <<30, 30>>, <<195, 0, 0>>>>,
     <<<<16, 4>>, <<13, 0>>, <<169, 0, 0>>>>,
     <<<<16, 4>>, <<0, 0>>, <<0, 0, 0>>>>,
     <<<<16, 4>>, <<0>>, <<10, 20, 0>>>>}
PromoteHurdleSet == {R(50), Frac(175, 2), R(100), R(225)}
GpPromoteShareSet == {60}

IrrBasedPromoteInputs ==
    {exit_input(deal[1], deal[2], deal[3], terms,
                <<IrrBasedPromote, hurdle, promote, unused_rate>>) :
        deal \in PromoteDealSet,
        terms \in ExitPrefRateSet \X {20, 50} \X BOOLEAN,
        hurdle \in PromoteHurdleSet, promote \in GpPromoteShareSet}

\* A deal whose LP IRR is 18.75% without the residual of 22, 121.875% with the
\* base split of it, 156.25% with all of it and on the bisection grid in
\* between, and two deals without an LP IRR.
LpCapDealSet ==
    {<<<<16, 4>>, <<4>>, <<42, 0, 0>>>>,
     <<<<16, 4>>, <<0>>, <<0, 0, 0>>>>,
     <<<<16, 4>>, <<0>>, <<10, 20, 0>>>>}
LpIrrCapSet ==
    {R(10), Frac(75, 4), Frac(425, 8), Frac(175, 2), Frac(2225, 16), Frac(625, 4), R(200)}

LpReturnCapInputs ==
    {exit_input(deal[1], deal[2], deal[3], <<0, 25, FALSE>>,
                <<LpReturnCap, unused_rate, 0, cap>>) :
        deal \in LpCapDealSet, cap \in LpIrrCapSet}

ExitInputs == NoPromoteInputs \cup IrrBasedPromoteInputs \cup LpReturnCapInputs

InitExit ==
    /\ pc = "loop"
    /\ exit_in \in ExitInputs
    /\ exit_state = Idle
    /\ wf_in = [lp_equity |-> exit_in.lp_equity, gp_equity |-> exit_in.gp_equity,
                pref_rate |-> exit_in.pref_rate,
                gp_profit_share |-> exit_in.gp_profit_share,
                include_catchup |-> exit_in.include_catchup]
    /\ lp_cumulative_deficit = Zero
    /\ gp_cumulative_deficit = Zero
    /\ lp_cumulative_distributions = Zero
    /\ gp_cumulative_distributions = Zero
    /\ waterfall_data = <<>>
    /\ dist = Idle
    /\ dist_in = Idle
    /\ NoFinancing
    /\ NoLease
    /\ NoApp

---------------------------------------------------------------------------
(* app_v2.0_WIP.py: the exit waterfall inside quick_deal_irr (lines        *)
(* 1620-1731), which the sensitivity tables run on their own copies wf_df  *)
(* and gep of the annual table and of the gross equity proceeds.  q holds  *)
(* the locals assigned so far.                                             *)

\* lines 1621-1623
quick_capital(lp_eq, gp_eq, gep) ==
    Let(RAdd(lp_eq, gp_eq), LAMBDA total_eq_inv :
        [lp_eq |-> lp_eq, gp_eq |-> gp_eq, gep |-> gep,
         total_eq_inv |-> total_eq_inv,
         cap_ret |-> RMin(gep, total_eq_inv),
         rem |-> RMax(Zero, RSub(gep, total_eq_inv))])

\* lines 1629-1635 once tot_def and pc_paid are known
quick_pref_paid(q, fl_def, fg_def, tot_def, pc_paid) ==
    [lpc |-> IF RGt(tot_def, Zero) THEN RMul(pc_paid, RDiv(fl_def, tot_def)) ELSE Zero,
     gpc |-> IF RGt(tot_def, Zero) THEN RMul(pc_paid, RDiv(fg_def, tot_def)) ELSE Zero,
     rem |-> RSub(q.rem, pc_paid)] @@ q

\* lines 1626-1635
quick_pref(wf_df, q) ==
    Let(RAdd(wf_df[Len(wf_df)].LP_Pref_Deficit, wf_df[Len(wf_df)].GP_Pref_Deficit),
        LAMBDA tot_def :
            quick_pref_paid(q, wf_df[Len(wf_df)].LP_Pref_Deficit,
                            wf_df[Len(wf_df)].GP_Pref_Deficit, tot_def,
                            RMin(q.rem, tot_def)))

\* lines 1640-1643
quick_cu_need(wf_df, gp_ps) ==
    LET n == Len(wf_df)
        tot_res == RAdd(RAdd(column_sum(wf_df, n, "LP_Split"),
                             column_sum(wf_df, n, "GP_Split")),
                        column_sum(wf_df, n, "GP_Catch_up"))
        gp_so_far == RAdd(column_sum(wf_df, n, "GP_Catch_up"),
                          column_sum(wf_df, n, "GP_Split"))
    IN  RMax(Zero, RSub(RMul(tot_res, Pct(gp_ps)), gp_so_far))

\* lines 1638-1645
quick_catchup(wf_df, incl_catchup, gp_ps, q) ==
    IF incl_catchup /\ RGt(q.rem, Zero) /\ RGt(gp_ps, Zero)
    THEN Let(RMin(q.rem, quick_cu_need(wf_df, gp_ps)), LAMBDA gce :
             [gce |-> gce, rem |-> RSub(q.rem, gce)] @@ q)
    ELSE [gce |-> Zero] @@ q

\* A slip at lines 1677-1681 and 1701-1702: the base split with the parties
\* exchanged.
quick_split_exchanged(rem, gp_share) ==
    [lp_es |-> RMul(rem, Pct(gp_share)),
     gp_es |-> RMul(rem, RDiv(RSub(Hundred, gp_share), Hundred))]

\* lines 1676-1680, 1701-1702, 1728-1729: the residual at a GP share
quick_split(rem, gp_share) ==
    [lp_es |-> RMul(rem, RDiv(RSub(Hundred, gp_share), Hundred)),
     gp_es |-> RMul(rem, Pct(gp_share))]

\* lines 1665-1680
quick_promote(a, wf_df, q) ==
    Let(quick_irr(deal_cfs_p(wf_df, RAdd(q.lp_eq, q.gp_eq), q.gep)), LAMBDA d_irr_chk :
        IF d_irr_chk.defined /\ RGt(RMul(d_irr_chk.irr, Hundred), a.promote_hurdle_irr)
        THEN quick_split(q.rem, R(a.gp_promote_share))
        ELSE quick_split(q.rem, R(a.gp_profit_share)))

\* lines 1687-1694: _lp_irr_at_share
lp_irr_at_share(wf_df, lp_eq, lp_fixed_exit, lp_res_share) ==
    quick_irr(
        <<RNeg(lp_eq)>> \o
        [i \in 1..Len(wf_df) |->
            IF i = Len(wf_df)
            THEN RAdd(wf_df[i].LP_Total, RAdd(lp_fixed_exit, lp_res_share))
            ELSE wf_df[i].LP_Total])

\* lines 1710-1723: the search with n iterations left; c holds what
\* _lp_irr_at_share reads and the target.  Once lo = hi every later mid_s is
\* that same amount, so the iterations left are not unfolded.
RECURSIVE quick_cap_search(_, _, _, _)
RECURSIVE quick_cap_test(_, _, _, _, _, _)

quick_cap_test(c, lo, hi, n, mid_s, irr_m) ==
    IF lo = hi THEN mid_s
    ELSE IF ~irr_m.defined
    THEN IF n = 1 THEN mid_s ELSE quick_cap_search(c, mid_s, hi, n - 1)
    ELSE IF RLt(RAbs(RSub(irr_m.irr, c.target_cap_s)), lp_cap_tolerance) \/ n = 1
    THEN mid_s
    ELSE IF RLt(irr_m.irr, c.target_cap_s)
    THEN quick_cap_search(c, mid_s, hi, n - 1)
    ELSE quick_cap_search(c, lo, mid_s, n - 1)

quick_cap_search(c, lo, hi, n) ==
    Let(RDiv(RAdd(lo, hi), R(2)), LAMBDA mid_s :
        quick_cap_test(c, lo, hi, n, mid_s,
                       lp_irr_at_share(c.wf_df, c.lp_eq, c.lp_fixed_exit, mid_s)))

\* lines 1724-1727
quick_cap_amounts(gp_ps, rem, mid_s) ==
    Let(IF RLt(gp_ps, Hundred)
        THEN RDiv(mid_s, RDiv(RSub(Hundred, gp_ps), Hundred))
        ELSE Zero,
        LAMBDA base_chunk :
            [lp_es |-> mid_s,
             gp_es |-> RAdd(RSub(base_chunk, mid_s), RSub(rem, base_chunk))])

\* lines 1703-1727: the cap is hit
quick_cap_hit(a, c, rem, lp_irr_zero) ==
    IF lp_irr_zero.defined /\ RGe(lp_irr_zero.irr, c.target_cap_s)
    THEN [lp_es |-> Zero, gp_es |-> rem]
    ELSE quick_cap_amounts(R(a.gp_profit_share), rem,
                           quick_cap_search(c, Zero, rem, lp_cap_iterations))

\* lines 1696-1727 once lp_irr_max is known
quick_cap_cases(a, c, rem, lp_irr_max) ==
    IF ~lp_irr_max.defined \/ RLe(lp_irr_max.irr, c.target_cap_s)
    THEN quick_split(rem, R(a.gp_profit_share))
    ELSE quick_cap_hit(a, c, rem,
                       lp_irr_at_share(c.wf_df, c.lp_eq, c.lp_fixed_exit, Zero))

\* lines 1684-1685, 1697
quick_cap_context(a, wf_df, q) ==
    [wf_df |-> wf_df,
     lp_eq |-> q.lp_eq,
     lp_fixed_exit |->
         RAdd(IF RGt(q.total_eq_inv, Zero)
              THEN RDiv(RMul(q.cap_ret, q.lp_eq), q.total_eq_inv)
              ELSE Zero,
              q.lpc),
     target_cap_s |-> RDiv(a.lp_irr_cap, Hundred)]

\* lines 1682-1727
quick_return_cap(a, wf_df, q) ==
    Let(quick_cap_context(a, wf_df, q), LAMBDA c :
        quick_cap_cases(a, c, q.rem,
                        lp_irr_at_share(wf_df, c.lp_eq, c.lp_fixed_exit, q.rem)))

\* lines 1664-1729, by promote mode
quick_residual(a, wf_df, q) ==
    IF a.promote_mode = "IRR-Based Promote" THEN quick_promote(a, wf_df, q)
    ELSE IF a.promote_mode = "LP Return Cap" THEN quick_return_cap(a, wf_df, q)
    ELSE quick_split(q.rem, R(a.gp_profit_share))

\* lines 1731-1732
quick_exit_totals(q, s) ==
    [lp_exit |->
         RAdd(RAdd(IF RGt(q.total_eq_inv, Zero)
                   THEN RDiv(RMul(q.cap_ret, q.lp_eq), q.total_eq_inv)
                   ELSE Zero,
                   q.lpc),
              s.lp_es),
     gp_exit |->
         RAdd(RAdd(RAdd(IF RGt(q.total_eq_inv, Zero)
                        THEN RDiv(RMul(q.cap_ret, q.gp_eq), q.total_eq_inv)
                        ELSE Zero,
                        q.gpc),
                   q.gce),
              s.gp_es)] @@ s @@ q

\* lines 1620-1732
quick_exit_tiers(a, wf_df, gep) ==
    Let(quick_catchup(wf_df, a.include_catchup, R(a.gp_profit_share),
                      quick_pref(wf_df, quick_capital(R(a.lp_equity), R(a.gp_equity), gep))),
        LAMBDA q : quick_exit_totals(q, quick_residual(a, wf_df, q)))

---------------------------------------------------------------------------
(* The steps of the exit run.                                              *)

\* line 1037: the annual waterfall over the years of the hold
ExitAnnualYear ==
    /\ Len(waterfall_data) < Len(exit_in.cash_available)
    /\ WaterfallStep(exit_in.cash_available[Len(waterfall_data) + 1])

ExitReturnOfCapital ==
    /\ pc = "loop"
    /\ Len(waterfall_data) = Len(exit_in.cash_available)
    /\ \E d \in {exit_return_of_capital(
                        R(exit_in.lp_equity), R(exit_in.gp_equity),
                        gross_equity_proceeds_of(R(exit_in.sale_price),
                                                 R(exit_in.exit_loan_balance),
                                                 R(exit_in.total_sale_costs)))} :
           exit_state' = d
    /\ pc' = "exit_pref"
    /\ UNCHANGED <<wf_in, wf_state, dist, dist_in, fin_vars, lease_vars, exit_in, app_vars>>

ExitPrefCatchup ==
    /\ pc = "exit_pref"
    /\ \E d \in {exit_pref_catchup(waterfall_data, exit_state.remaining_after_capital)} :
           exit_state' = exit_state @@ d
    /\ pc' = "exit_catchup"
    /\ UNCHANGED <<wf_in, wf_state, dist, dist_in, fin_vars, lease_vars, exit_in, app_vars>>

ExitGpCatchup ==
    /\ pc = "exit_catchup"
    /\ \E d \in {exit_gp_catchup(waterfall_data, exit_in.include_catchup,
                                 R(exit_in.gp_profit_share),
                                 exit_state.remaining_after_pref)} :
           exit_state' = exit_state @@ d
    /\ pc' = "exit_residual"
    /\ UNCHANGED <<wf_in, wf_state, dist, dist_in, fin_vars, lease_vars, exit_in, app_vars>>

ExitResidualSplit ==
    /\ pc = "exit_residual"
    /\ \E d \in {exit_residual_split(exit_in, waterfall_data, exit_state)} :
           exit_state' = exit_state @@ d
    /\ pc' = "exit_done"
    /\ UNCHANGED <<wf_in, wf_state, dist, dist_in, fin_vars, lease_vars, exit_in, app_vars>>

\* lines 1620-1732: a sensitivity cell whose pipeline produced the same annual
\* table and the same gross equity proceeds runs its own exit waterfall
QuickExit ==
    /\ pc = "exit_done"
    /\ \E d \in {quick_exit_tiers(exit_in, waterfall_data,
                                  exit_state.gross_equity_proceeds)} :
           quick_state' = d
    /\ pc' = "quick_done"
    /\ UNCHANGED <<wf_in, wf_state, dist, dist_in, fin_vars, lease_vars, exit_vars,
                   irr_in, irr_out, cash_in, cash_state, quick_cash, sweep>>

NextExit ==
    \/ ExitAnnualYear
    \/ ExitReturnOfCapital
    \/ ExitPrefCatchup
    \/ ExitGpCatchup
    \/ ExitResidualSplit
    \/ QuickExit

SpecExit == InitExit /\ [][NextExit]_vars

---------------------------------------------------------------------------
(* app_v2.0_WIP.py: the three IRR solvers and the places that display an   *)
(* IRR.  calc_irr (lines 1387-1414) and _irr of quick_deal_irr (lines      *)
(* 1648-1661) repeat the bisection of _calc_irr_local with the same        *)
(* bounds, iteration count and tolerance.                                  *)

\* The number of times the body of the loop of lines 1153-1162 runs.
RECURSIVE irr_steps(_, _, _, _)
RECURSIVE irr_steps_test(_, _, _, _, _, _)

irr_steps_test(cashflows, low, high, n, mid, val) ==
    IF RLt(RAbs(val), irr_tolerance) \/ n = 1 THEN 1
    ELSE IF RGt(val, Zero) THEN 1 + irr_steps(cashflows, mid, high, n - 1)
    ELSE 1 + irr_steps(cashflows, low, mid, n - 1)

irr_steps(cashflows, low, high, n) ==
    Let(RDiv(RAdd(low, high), R(2)),
        LAMBDA mid : irr_steps_test(cashflows, low, high, n, mid,
                                    npv_from(cashflows, 0, mid)))

\* 10 ** k
RECURSIVE Pow10(_)
Pow10(k) == IF k = 0 THEN 1 ELSE 10 * Pow10(k - 1)

\* The integer nearest to a >= 0, a tie going to the even neighbour
round_half_even(a) ==
    LET q == a[1] \div a[2]
        twice_rest == 2 * (a[1] % a[2])
    IN  IF twice_rest > a[2] \/ (twice_rest = a[2] /\ q % 2 = 1) THEN q + 1 ELSE q

\* The k decimal digits of fixed-point notation, with leading zeros
RECURSIVE decimals_of(_, _)
decimals_of(n, k) ==
    IF k = 0 THEN "" ELSE decimals_of(n \div 10, k - 1) \o ToString(n % 10)

\* The digits of format(v, ".kf") for k >= 1, once |v| * 10 ** k is rounded
fixed_digits(negative, scaled, k) ==
    (IF negative THEN "-" ELSE "") \o ToString(scaled \div Pow10(k)) \o "." \o
    decimals_of(scaled % Pow10(k), k)

\* format(v, ".kf")
format_fixed(v, k) ==
    fixed_digits(v[1] < 0, round_half_even(RMul(RAbs(v), R(Pow10(k)))), k)

\* lines 1438, 1443, 1453: f"{irr*100:.2f}%" if irr is not None else "N/A"
metric_text(irr) ==
    IF irr.defined THEN format_fixed(RMul(irr.irr, Hundred), 2) \o "%" ELSE "N/A"

\* lines 1778, 1795: f"{irr*100:.1f}%" if irr is not None else "N/A"
cell_text(irr) ==
    IF irr.defined THEN format_fixed(RMul(irr.irr, Hundred), 1) \o "%" ELSE "N/A"

\* lines 1989-1991: the IRR stored for the reports, as a percentage
report_value(irr) ==
    IF irr.defined THEN [defined |-> TRUE, irr |-> RMul(irr.irr, Hundred)] ELSE NoIrr

\* pdf_export.py lines 29-31: _p
p_text(v) ==
    IF v.defined THEN format_fixed(v.irr, 1) \o "%" ELSE "N/A"

\* pdf_export.py lines 310 and 315: d.get(...) or 0
value_or_zero(v) ==
    IF v.defined /\ v.irr # Zero THEN v ELSE [defined |-> TRUE, irr |-> Zero]

\* lines 1327-1331: the IRR in the promote status of the page
promote_status_irr_text(actual_deal_irr) ==
    format_fixed(IF actual_deal_irr.defined THEN RMul(actual_deal_irr.irr, Hundred)
                 ELSE Zero, 1) \o "%"

\* pdf_export.py lines 310-313 and 315-318: the IRR in the status line of the
\* GP report
report_status_irr_text(v) == p_text(value_or_zero(v))

\* Streams of one or two years.  The bisection ends on an exact root after at
\* most three halvings, or on the tolerance of 0.01; the last three streams
\* have no IRR.
IrrStreamSet ==
    {<<R(-4), R(13)>>, <<R(-8), R(15)>>, <<R(-8), R(37)>>, <<R(-16), R(19)>>,
     <<R(-16), R(41)>>, <<R(-80), R(30), R(225)>>, <<R(-20), R(13), R(169)>>,
     <<Frac(-1, 100), Frac(1, 25)>>, <<R(-4), R(3)>>, <<R(-4), R(5)>>,
     <<R(-16), R(0)>>, <<R(-16), R(-5), R(5)>>, <<R(-16), R(-5), R(2)>>}

IrrInputs == [cashflows : IrrStreamSet, promote_mode : {NoPromote, IrrBasedPromote, LpReturnCap}]

InitIrr ==
    /\ pc = "irr_call"
    /\ irr_in \in IrrInputs
    /\ irr_out = Idle
    /\ quick_state = Idle
    /\ NoCash
    /\ NoSweep
    /\ wf_in = Idle
    /\ NoWaterfall
    /\ dist = Idle
    /\ dist_in = Idle
    /\ NoFinancing
    /\ NoLease
    /\ NoExit

\* The stream goes through the three solvers.
SolveIrr ==
    /\ pc = "irr_call"
    /\ \E d \in {[local |-> calc_irr_local(irr_in.cashflows),
                  full |-> calc_irr(irr_in.cashflows),
                  quick |-> quick_irr(irr_in.cashflows),
                  steps |-> IF RLe(sum_after_first(irr_in.cashflows,
                                                   Len(irr_in.cashflows)), Zero)
                            THEN 0
                            ELSE irr_steps(irr_in.cashflows, irr_low, irr_high,
                                           irr_iterations)]} :
           irr_out' = d
    /\ pc' = "irr_solved"
    /\ UNCHANGED <<wf_in, wf_state, dist, dist_in, fin_vars, lease_vars, exit_vars, irr_in,
                   quick_state, cash_in, cash_state, quick_cash, sweep>>

\* Every place that shows an IRR shows the one it was handed: the metrics of
\* the returns tab, a sensitivity cell, the reports, and the status lines in
\* the promote modes.
DisplayIrr ==
    /\ pc = "irr_solved"
    /\ \E d \in {[metric |-> metric_text(irr_out.full),
                  cell |-> cell_text(irr_out.quick),
                  report |-> p_text(report_value(irr_out.full)),
                  status |->
                      IF irr_in.promote_mode = IrrBasedPromote
                      THEN <<promote_status_irr_text(irr_out.local),
                             report_status_irr_text(report_value(irr_out.full))>>
                      ELSE IF irr_in.promote_mode = LpReturnCap
                      THEN <<report_status_irr_text(report_value(irr_out.full))>>
                      ELSE <<>>]} :
           irr_out' = irr_out @@ d
    /\ pc' = "irr_displayed"
    /\ UNCHANGED <<wf_in, wf_state, dist, dist_in, fin_vars, lease_vars, exit_vars, irr_in,
                   quick_state, cash_in, cash_state, quick_cash, sweep>>

NextIrr ==
    \/ SolveIrr
    \/ DisplayIrr

SpecIrr == InitIrr /\ [][NextIrr]_vars

---------------------------------------------------------------------------
(* app_v2.0_WIP.py: the annual cash-flow table of the live pipeline (lines *)
(* 527-742) and of quick_deal_irr (lines 1519-1606).  a holds the sidebar  *)
(* inputs, s the locals of the run.                                        *)

BuyAndHold == "Buy-and-Hold with Permanent Financing"
BridgeToPerm == "Bridge-to-Permanent (Value-Add)"

\* line 415: no refinance planned
refi_never == 999

\* cash_flows.py lines 106-120
calculate_total_project_cost(purchase_price, closing_costs_pct, bridge_orig_points, acquisition_fee_pct, bridge_loan_amount) ==
    [total_uses |->
        RAdd(RAdd(RAdd(purchase_price, RMul(purchase_price, Pct(closing_costs_pct))),
                  RMul(bridge_loan_amount, Pct(bridge_orig_points))),
             RMul(purchase_price, Pct(acquisition_fee_pct)))]

\* lines 585-590 and 1543-1546: the equity split
equity_split(a, l, total_equity_needed) ==
    [lp_equity |-> RMul(total_equity_needed, Pct(a.lp_equity_pct)),
     gp_equity |-> RMul(total_equity_needed, Pct(RSub(Hundred, a.lp_equity_pct)))] @@ l

\* lines 572-586 and 1536-1543; line 1749: _orig_pts is the acquisition loan's
\* origination
equity_needed(a, l) ==
    IF a.deal_strategy = BridgeToPerm
    THEN equity_split(a, l,
             RAdd(RSub(calculate_total_project_cost(a.purchase_price, a.closing_costs_pct,
                           a.bridge_orig_points, a.acquisition_fee_pct,
                           l.bridge_loan_amount).total_uses,
                       l.bridge_loan_amount),
                  a.value_add_capex))
    ELSE equity_split(a, l,
             RSub(calculate_total_project_cost(a.purchase_price, a.closing_costs_pct,
                      a.perm_orig_points_acq, a.acquisition_fee_pct,
                      l.initial_loan_amount).total_uses,
                  l.initial_loan_amount))

\* lines 538-548 and 1520-1524
bridge_at_acquisition(a, bridge_loan_amount) ==
    Let(calculate_bridge_loan_payment(bridge_loan_amount, a.bridge_rate, a.bridge_term,
                                      a.bridge_io),
        LAMBDA bridge_payment :
            [bridge_loan_amount |-> bridge_loan_amount,
             bridge_payment |-> bridge_payment,
             initial_loan_amount |-> bridge_loan_amount,
             initial_debt_service |-> bridge_payment])

\* lines 549-568 and 1525-1533
perm_at_acquisition(a, perm_rate, year_1_noi) ==
    Let(acquisition_loan(a.purchase_price, a.perm_ltv, year_1_noi, a.target_dscr,
                         perm_rate, a.perm_amort, a.use_conservative),
        LAMBDA q :
            [bridge_loan_amount |-> Zero,
             bridge_payment |-> Zero,
             initial_loan_amount |-> q.initial_loan_amount,
             initial_debt_service |-> q.initial_debt_service])

\* lines 531-590 and 1519-1553: the loans at acquisition, the equity and the
\* initial values of the locals of the loop.  refi_results holds what the calls
\* of calculate_refinance returned so far, the last one being the local
\* refi_results; <<>> stands for None.
loan_setup(a, perm_rate, year_1_noi) ==
    [refi_results |-> <<>>,
     new_loan_amount |-> Zero,
     perm_payment |-> Zero,
     refi_proceeds |-> Zero,
     perm_rate |-> perm_rate,
     cf_data |-> <<>>] @@
    equity_needed(a,
        IF a.deal_strategy = BridgeToPerm
        THEN bridge_at_acquisition(a, RMul(a.purchase_price, Pct(a.bridge_ltv)))
        ELSE perm_at_acquisition(a, perm_rate, year_1_noi))

\* The arguments of the call of lines 620-626 / 675-681 / 1565-1569 / 1582-1586
refinance_args(a, s, noi, old_balance, prepay_penalty, orig_points) ==
    [noi_at_refi |-> noi,
     refi_valuation_method |-> a.refi_valuation_method,
     refi_cap_rate |-> a.refi_cap_rate,
     fixed_refi_value |-> a.fixed_refi_value,
     purchase_price |-> a.purchase_price,
     years_to_refi |-> a.refi_year,
     appreciation_rate |-> a.appreciation_rate,
     perm_rate |-> s.perm_rate,
     perm_ltv |-> a.perm_ltv,
     perm_amort |-> a.perm_amort,
     target_dscr |-> a.target_dscr,
     use_conservative |-> a.use_conservative,
     allow_cashout |-> a.allow_cashout,
     max_cashout_pct |-> a.max_cashout_pct,
     bridge_balance |-> old_balance,
     bridge_prepay_penalty_pct |-> prepay_penalty,
     perm_orig_points |-> orig_points,
     refi_legal_costs |-> a.refi_legal_costs]

\* A slip at lines 646-650: the refinance year's payments are not counted.
years_after_refi_year(year, refi_year) == year - refi_year

\* lines 646-650, 699-702: years_since_refi + 1
years_on_new_loan(year, refi_year) == year - refi_year + 1

\* lines 631-642, 686-693 once calculate_refinance has returned
refinanced(a, s, refi_results, perm_payment, loan_type) ==
    [refi_results |-> Append(s.refi_results, refi_results),
     new_loan_amount |-> refi_results.new_loan_amount,
     perm_payment |-> perm_payment,
     debt_service |-> perm_payment,
     loan_balance |-> calculate_perm_loan_balance(refi_results.new_loan_amount,
                                                  s.perm_rate, a.perm_amort, 1),
     refi_proceeds |-> refi_results.net_proceeds,
     loan_type |-> loan_type] @@ s

\* lines 608-642 and 665-694: the refinance year
refinance_year(a, s, noi, old_balance, prepay_penalty, loan_type) ==
    Let(calculate_refinance(refinance_args(a, s, noi, old_balance, prepay_penalty,
                                           a.perm_orig_points)),
        LAMBDA refi_results :
            refinanced(a, s, refi_results,
                       calculate_perm_loan_payment(refi_results.new_loan_amount,
                                                   s.perm_rate, a.perm_amort),
                       loan_type))

\* lines 644-653 and 696-703: the years after the refinance
perm_period(a, s, year) ==
    [debt_service |-> s.perm_payment,
     loan_balance |-> calculate_perm_loan_balance(s.new_loan_amount, s.perm_rate,
                         a.perm_amort, years_on_new_loan(year, a.refi_year)),
     loan_type |-> "Perm"] @@ s

\* lines 599-653: the loan of the year, bridge-to-permanent.  "Bridge->Perm" is
\* the label of line 642, whose arrow is one character in the source.
bridge_to_perm_year(a, s, year, noi) ==
    IF year < a.refi_year
    THEN [debt_service |-> s.bridge_payment,
          loan_balance |-> calculate_bridge_loan_balance(s.bridge_loan_amount,
                               a.bridge_rate, a.bridge_term, year, a.bridge_io),
          loan_type |-> "Bridge"] @@ s
    ELSE IF year = a.refi_year
    THEN refinance_year(a, s, noi,
             calculate_bridge_loan_balance(s.bridge_loan_amount, a.bridge_rate,
                                           a.bridge_term, year - 1, a.bridge_io),
             a.bridge_prepay_penalty, "Bridge->Perm")
    ELSE perm_period(a, s, year)

\* lines 655-703: the loan of the year, buy-and-hold
buy_and_hold_year(a, s, year, noi) ==
    IF year < a.refi_year \/ a.refi_year = refi_never
    THEN [debt_service |-> s.initial_debt_service,
          loan_balance |-> calculate_perm_loan_balance(s.initial_loan_amount,
                               s.perm_rate, a.perm_amort, year),
          loan_type |-> "Perm"] @@ s
    ELSE IF year = a.refi_year
    THEN refinance_year(a, s, noi,
             calculate_perm_loan_balance(s.initial_loan_amount, s.perm_rate,
                                         a.perm_amort, year - 1),
             Zero, "Perm Refi")
    ELSE perm_period(a, s, year)

\* A slip at lines 717-720: the proceeds are added from the refinance year on.
cash_available_from_refi_year(cash_before_refi, year, refi_year, refi_proceeds) ==
    IF year >= refi_year THEN RAdd(cash_before_refi, refi_proceeds) ELSE cash_before_refi

\* lines 717-720
cash_available_of(cash_before_refi, year, refi_year, refi_proceeds) ==
    IF year = refi_year THEN RAdd(cash_before_refi, refi_proceeds) ELSE cash_before_refi

\* lines 724, 1602
va_capex_this_year_of(a, year) ==
    IF year = a.value_add_year /\ RGt(a.value_add_capex, Zero)
    THEN a.value_add_capex
    ELSE Zero

\* lines 707-742 once the operating expenses are known
cash_flow_row(a, s, year, noi, total_operating_expenses) ==
    [Year |-> year,
     NOI |-> noi,
     Non_Operating_Expenses |-> total_operating_expenses,
     Value_Add_CapEx |-> va_capex_this_year_of(a, year),
     Cash_Before_Debt |-> RSub(noi, total_operating_expenses),
     Debt_Service |-> s.debt_service,
     Cash_Available |->
         RSub(cash_available_of(RSub(RSub(noi, total_operating_expenses), s.debt_service),
                                year, a.refi_year, s.refi_proceeds),
              va_capex_this_year_of(a, year)),
     DSCR |-> calculate_dscr(noi, s.debt_service),
     Loan_Balance |-> s.loan_balance,
     Loan_Type |-> s.loan_type]

\* lines 707-742
cash_flow_append(a, s, year, noi) ==
    [cf_data |-> Append(s.cf_data,
         cash_flow_row(a, s, year, noi,
             RAdd(RAdd(a.capex_reserve, RMul(s.lp_equity, Pct(a.asset_mgmt_pct))),
                  a.admin_costs)))] @@ s

\* lines 594-742: one iteration of the loop
cash_flow_year(a, s, year, noi) ==
    Let(IF a.deal_strategy = BridgeToPerm
        THEN bridge_to_perm_year(a, s, year, noi)
        ELSE buy_and_hold_year(a, s, year, noi),
        LAMBDA t : cash_flow_append(a, t, year, noi))

\* lines 1559-1576 and 1577-1593 once calculate_refinance has returned
quick_refinanced(a, s, refi_res, pm) ==
    [refi_results |-> Append(s.refi_results, refi_res),
     new_loan_amount |-> refi_res.new_loan_amount,
     perm_payment |-> pm,
     debt_service |-> pm,
     loan_balance |-> calculate_perm_loan_balance(refi_res.new_loan_amount,
                                                  s.perm_rate, a.perm_amort, 1),
     refi_proceeds |-> refi_res.net_proceeds] @@ s

\* lines 1563-1573 and 1580-1590; line 1750: _perm_pts is 0 for buy-and-hold
quick_refinance_year(a, s, noi_v, old_balance, prepay_penalty) ==
    Let(calculate_refinance(refinance_args(a, s, noi_v, old_balance, prepay_penalty,
            IF a.deal_strategy = BridgeToPerm THEN a.perm_orig_points ELSE Zero)),
        LAMBDA refi_res :
            quick_refinanced(a, s, refi_res,
                             calculate_perm_loan_payment(refi_res.new_loan_amount,
                                                         s.perm_rate, a.perm_amort)))

\* lines 1574-1576 and 1591-1593
quick_perm_period(a, s, year) ==
    [debt_service |-> s.perm_payment,
     loan_balance |-> calculate_perm_loan_balance(s.new_loan_amount, s.perm_rate,
                         a.perm_amort, year - a.refi_year + 1)] @@ s

\* lines 1558-1593: the loan of the year in quick_deal_irr; the locals bl_amount,
\* bl_payment, init_loan, init_ds, new_ln, pm, rp, ds, lb keep the names of
\* their counterparts of the live loop
quick_loan_year(a, s, year, noi_v) ==
    IF a.deal_strategy = BridgeToPerm
    THEN IF year < a.refi_year
         THEN [debt_service |-> s.bridge_payment,
               loan_balance |-> calculate_bridge_loan_balance(s.bridge_loan_amount,
                                    a.bridge_rate, a.bridge_term, year, a.bridge_io)] @@ s
         ELSE IF year = a.refi_year
         THEN quick_refinance_year(a, s, noi_v,
                  calculate_bridge_loan_balance(s.bridge_loan_amount, a.bridge_rate,
                                                a.bridge_term, year - 1, a.bridge_io),
                  a.bridge_prepay_penalty)
         ELSE quick_perm_period(a, s, year)
    ELSE IF year < a.refi_year \/ a.refi_year = refi_never
         THEN [debt_service |-> s.initial_debt_service,
               loan_balance |-> calculate_perm_loan_balance(s.initial_loan_amount,
                                    s.perm_rate, a.perm_amort, year)] @@ s
         ELSE IF year = a.refi_year
         THEN quick_refinance_year(a, s, noi_v,
                  calculate_perm_loan_balance(s.initial_loan_amount, s.perm_rate,
                                              a.perm_amort, year - 1),
                  Zero)
         ELSE quick_perm_period(a, s, year)

\* lines 1595-1604: the row of cf_list, with the locals opex and ds of the
\* iteration next to the four columns of line 1604
quick_cash_row(a, s, year, noi_v, opex) ==
    [Year |-> year,
     NOI |-> noi_v,
     Cash_Available |->
         RSub(RAdd(RSub(RSub(noi_v, opex), s.debt_service),
                   IF year = a.refi_year THEN s.refi_proceeds ELSE Zero),
              va_capex_this_year_of(a, year)),
     Loan_Balance |-> s.loan_balance,
     opex |-> opex,
     ds |-> s.debt_service]

\* lines 1555-1604: one iteration of the loop of quick_deal_irr
quick_cash_flow_year(a, s, year, noi_v) ==
    Let(quick_loan_year(a, s, year, noi_v), LAMBDA t :
        [cf_data |-> Append(t.cf_data,
             quick_cash_row(a, t, year, noi_v,
                 RAdd(RAdd(a.capex_reserve, RMul(t.lp_equity, Pct(a.asset_mgmt_pct))),
                      a.admin_costs)))] @@ t)

---------------------------------------------------------------------------
(* A run builds the annual cash-flow table of the live pipeline and then   *)
(* the table of one sensitivity cell, the one at the base permanent rate.  *)

\* deal_strategy, exit_strategy, holding_period and refi_year as lines 141-155,
\* 326, 385 and 415 allow them together
CashPlanSet ==
    {[deal_strategy |-> BridgeToPerm, exit_strategy |-> "", holding_period |-> 3,
      refi_year |-> y] : y \in 1..4}
    \cup {[deal_strategy |-> BuyAndHold, exit_strategy |-> "Sell Property",
            holding_period |-> 3, refi_year |-> refi_never]}
    \cup {[deal_strategy |-> BuyAndHold, exit_strategy |-> "Cash-Out Refinance",
            holding_period |-> h[2], refi_year |-> h[1]] :
              h \in {<<1, 1>>, <<1, 2>>, <<2, 2>>, <<2, 4>>}}

\* <<NOI by year of noi_df, of noi_df_s>>
CashNoiSet ==
    {<<(<<10, 10, 12, 12>>), (<<10, 10, 12, 12>>)>>,
     <<(<<12, 12, 12, 12>>), (<<10, 10, 12, 12>>)>>}

\* <<perm_rate, perm_amort>>
CashPermTermsSet == {<<0, 10>>, <<1200, 1>>}

\* <<bridge_rate, bridge_term, bridge_io>>
CashBridgeTermsSet == {<<10, 2, TRUE>>, <<0, 2, FALSE>>}

CashValuationSet ==
    {v \in ValuationSet : v.refi_valuation_method # "Fixed Property Value"
                          \/ v.fixed_refi_value = 200}

\* <<value_add_capex, value_add_year>>
ValueAddSet == {<<0, 1>>, <<5, 1>>, <<5, 2>>}

CashInputs ==
    [plan : CashPlanSet, noi : CashNoiSet, perm_terms : CashPermTermsSet,
     bridge_terms : CashBridgeTermsSet, valuation : CashValuationSet,
     cashout : CashoutSet, value_add : ValueAddSet, use_conservative : BOOLEAN]

\* the sidebar inputs as floats; the inputs that are not enumerated are fixed
cash_args(i) ==
    [deal_strategy |-> i.plan.deal_strategy,
     exit_strategy |-> i.plan.exit_strategy,
     holding_period |-> i.plan.holding_period,
     refi_year |-> i.plan.refi_year,
     noi_df |-> [y \in 1..4 |-> R(i.noi[1][y])],
     noi_df_s |-> [y \in 1..4 |-> R(i.noi[2][y])],
     purchase_price |-> R(100),
     bridge_ltv |-> R(75),
     bridge_rate |-> R(i.bridge_terms[1]),
     bridge_term |-> i.bridge_terms[2],
     bridge_io |-> i.bridge_terms[3],
     bridge_prepay_penalty |-> R(2),
     bridge_orig_points |-> R(1),
     perm_orig_points_acq |-> R(1),
     perm_rate |-> R(i.perm_terms[1]),
     perm_amort |-> i.perm_terms[2],
     perm_ltv |-> R(75),
     target_dscr |-> Frac(5, 4),
     use_conservative |-> i.use_conservative,
     refi_valuation_method |-> i.valuation.refi_valuation_method,
     refi_cap_rate |-> R(i.valuation.refi_cap_rate),
     fixed_refi_value |-> R(i.valuation.fixed_refi_value),
     appreciation_rate |-> R(i.valuation.appreciation_rate),
     allow_cashout |-> i.cashout[1],
     max_cashout_pct |-> R(i.cashout[2]),
     perm_orig_points |-> R(1),
     refi_legal_costs |-> R(5),
     closing_costs_pct |-> R(1),
     acquisition_fee_pct |-> R(1),
     value_add_capex |-> R(i.value_add[1]),
     value_add_year |-> i.value_add[2],
     capex_reserve |-> R(1),
     asset_mgmt_pct |-> R(1),
     admin_costs |-> R(1),
     lp_equity_pct |-> R(80)]

InitCash ==
    /\ pc = "cash_setup"
    /\ cash_in \in {cash_args(i) : i \in CashInputs}
    /\ cash_state = Idle
    /\ quick_cash = Idle
    /\ irr_in = Idle
    /\ irr_out = Idle
    /\ quick_state = Idle
    /\ sweep = Idle
    /\ dist = Idle
    /\ dist_in = Idle
    /\ NoWaterfall
    /\ NoFinancing
    /\ NoLease
    /\ NoExit

\* lines 527-590
LoanSetup ==
    /\ pc = "cash_setup"
    /\ \E d \in {loan_setup(cash_in, cash_in.perm_rate, cash_in.noi_df[1])} :
           cash_state' = d
    /\ pc' = "cash_loop"
    /\ UNCHANGED <<wf_in, wf_state, dist, dist_in, fin_vars, lease_vars, exit_vars,
                   irr_in, irr_out, quick_state, cash_in, quick_cash, sweep>>

\* lines 592-742: the iteration of year Len(cf_data) + 1
CashFlowYear ==
    /\ pc = "cash_loop"
    /\ \E year \in {Len(cash_state.cf_data) + 1} :
         /\ \E d \in {cash_flow_year(cash_in, cash_state, year, cash_in.noi_df[year])} :
                cash_state' = d
         /\ pc' = IF year = cash_in.holding_period THEN "cash_table" ELSE "cash_loop"
    /\ UNCHANGED <<wf_in, wf_state, dist, dist_in, fin_vars, lease_vars, exit_vars,
                   irr_in, irr_out, quick_state, cash_in, quick_cash, sweep>>

\* lines 1519-1553, in the cell whose perm_rate_v is perm_rate (lines 1771, 1775)
QuickLoanSetup ==
    /\ pc = "cash_table"
    /\ \E d \in {loan_setup(cash_in, cash_in.perm_rate, cash_in.noi_df_s[1])} :
           quick_cash' = d
    /\ pc' = "quick_loop"
    /\ UNCHANGED <<wf_in, wf_state, dist, dist_in, fin_vars, lease_vars, exit_vars,
                   irr_in, irr_out, quick_state, cash_in, cash_state, sweep>>

\* lines 1555-1604: the iteration of year Len(cf_list) + 1
QuickCashFlowYear ==
    /\ pc = "quick_loop"
    /\ \E year \in {Len(quick_cash.cf_data) + 1} :
         /\ \E d \in {quick_cash_flow_year(cash_in, quick_cash, year,
                                            cash_in.noi_df_s[year])} :
                quick_cash' = d
         /\ pc' = IF year = cash_in.holding_period THEN "quick_table" ELSE "quick_loop"
    /\ UNCHANGED <<wf_in, wf_state, dist, dist_in, fin_vars, lease_vars, exit_vars,
                   irr_in, irr_out, quick_state, cash_in, cash_state, sweep>>

NextCash == LoanSetup \/ CashFlowYear \/ QuickLoanSetup \/ QuickCashFlowYear

SpecCash == InitCash /\ [][NextCash]_vars

---------------------------------------------------------------------------
(* A run of the script: the projection and the annual waterfall on the     *)
(* structures the runs share, then the two sensitivity tables (lines       *)
(* 1499-1800).  A call is given with the state in which it leaves the      *)
(* objects it was handed, which Python passes by reference.                *)

\* A slip at cash_flows.py lines 166-181: a tenant past its last option is
\* marked vacant in the list.
multi_tenant_noi_call_marking(tenants_list, holding_period) ==
    [noi_df |-> [year \in 1..holding_period |-> noi_row(tenants_list, year)],
     tenants_list |->
         [n \in 1..Len(tenants_list) |->
             IF tenant_lease_status(tenants_list[n], holding_period).pays
             THEN tenants_list[n]
             ELSE [tenants_list[n] EXCEPT !.status = "Vacant"]]]

\* cash_flows.py lines 146-212: calculate_multi_tenant_noi.  No statement
\* assigns to tenants_list or to a key of a tenant; the rows are built from
\* tenant['...'] and tenant.get(...) reads.
multi_tenant_noi_call(tenants_list, holding_period) ==
    [noi_df |-> [year \in 1..holding_period |-> noi_row(tenants_list, year)],
     tenants_list |-> tenants_list]

\* distributions.py lines 163-183: the row of a year
multi_year_row(year, cash_available, before, d) ==
    [Year |-> year,
     Cash_Available |-> cash_available,
     LP_Pref |-> d.lp_pref_paid,
     LP_Split |-> d.lp_split,
     LP_Total |-> d.lp_total,
     LP_Cumulative |-> RAdd(IF year = 1 THEN Zero ELSE before[year - 1].LP_Cumulative,
                            d.lp_total),
     GP_Pref |-> d.gp_pref_paid,
     GP_Catch_up |-> d.gp_catchup,
     GP_Split |-> d.gp_split,
     GP_Total |-> d.gp_total,
     GP_Cumulative |-> RAdd(IF year = 1 THEN Zero ELSE before[year - 1].GP_Cumulative,
                            d.gp_total),
     LP_Pref_Deficit |-> d.new_lp_deficit,
     GP_Pref_Deficit |-> d.new_gp_deficit]

\* distributions.py lines 144-183: the rows of the first n years; w holds the
\* terms of the waterfall
RECURSIVE multi_year_rows(_, _, _)
multi_year_rows(cf_df, w, n) ==
    IF n = 0 THEN <<>>
    ELSE Let(multi_year_rows(cf_df, w, n - 1), LAMBDA before :
             Append(before,
                 multi_year_row(n, cf_df[n].Cash_Available, before,
                     calculate_waterfall_distribution(
                         cf_df[n].Cash_Available, w.lp_equity, w.gp_equity, w.pref_rate,
                         w.gp_profit_share,
                         IF n = 1 THEN Zero ELSE before[n - 1].LP_Pref_Deficit,
                         IF n = 1 THEN Zero ELSE before[n - 1].GP_Pref_Deficit,
                         w.include_catchup))))

\* distributions.py lines 119-185: calculate_multi_year_waterfall.  cf_df is
\* only read, through cf_df.iterrows().
multi_year_waterfall_call(cf_df, w) ==
    [waterfall_df |-> multi_year_rows(cf_df, w, Len(cf_df)),
     cf_df |-> cf_df]

\* line 1767
exit_cap_range == <<R(5), Frac(11, 2), R(6), Frac(13, 2), R(7), Frac(15, 2), R(8)>>

\* lines 1771, 1786: [-1.0, -0.5, 0.0, 0.5, 1.0]
perm_rate_deltas == <<R(-1), Frac(-1, 2), Zero, Frac(1, 2), One>>

\* lines 1771, 1786: round(perm_rate + d, 1)
perm_rate_range(perm_rate) ==
    [k \in 1..Len(perm_rate_deltas) |->
        Frac(round_half_even(RMul(RAdd(perm_rate, perm_rate_deltas[k]), R(10))), 10)]

\* What the body of the try statement of lines 1500-1743 does in a cell: it
\* raises, or it ends at the return of line 1743 with the two IRRs.
Raises == [raised |-> TRUE, deal_irr |-> NoIrr, lp_irr |-> NoIrr]

\* A slip at line 1744: the handler is missing and the exception leaves the call.
quick_deal_irr_unguarded(body) ==
    [propagated |-> body.raised, deal_irr |-> body.deal_irr, lp_irr |-> body.lp_irr]

\* lines 1499-1746: try: ... return _irr(deal_cfs), _irr(lp_cfs)
\* except Exception: return None, None
quick_deal_irr(body) ==
    IF body.raised
    THEN [propagated |-> FALSE, deal_irr |-> NoIrr, lp_irr |-> NoIrr]
    ELSE [propagated |-> FALSE, deal_irr |-> body.deal_irr, lp_irr |-> body.lp_irr]

\* lines 1777-1778 and 1792-1795: the value of the table's IRR and its text
sweep_cell(table, r) ==
    [text |-> cell_text(IF table = 1 THEN r.deal_irr ELSE r.lp_irr)]

\* lines 1774-1779 and 1789-1794: row_vals after the cell; an exception that
\* left the call ends the script run
cell_appended(s, table, r) ==
    IF r.propagated
    THEN [aborted |-> TRUE] @@ s
    ELSE [row_vals |-> Append(s.row_vals, sweep_cell(table, r).text)] @@ s

\* lines 1780 and 1795: sens_data[...] = row_vals
row_stored(s, table) ==
    IF table = 1
    THEN [sens1_data |-> Append(s.sens1_data, s.row_vals), row_vals |-> <<>>] @@ s
    ELSE [sens2_data |-> Append(s.sens2_data, s.row_vals), row_vals |-> <<>>] @@ s

\* The cells in which the body raises, and those in which it returns without
\* an IRR, as sets of <<perm rate index, exit cap index>>
SweepCells == (1..Len(perm_rate_deltas)) \X (1..Len(exit_cap_range))

SweepOutcomeSet ==
    {[raises |-> {}, undefined |-> {}],
     [raises |-> {<<1, 1>>}, undefined |-> {<<5, 7>>}],
     [raises |-> {c \in SweepCells : c[1] = 2}, undefined |-> {c \in SweepCells : c[2] = 7}],
     [raises |-> {<<5, 7>>}, undefined |-> {c \in SweepCells : c[1] = 1}],
     [raises |-> SweepCells, undefined |-> {}]}

\* The body of the try statement in the cell of perm rate pr and exit cap ec
try_body(outcomes, pr, ec) ==
    IF <<pr, ec>> \in outcomes.raises THEN Raises
    ELSE IF <<pr, ec>> \in outcomes.undefined
    THEN [raised |-> FALSE, deal_irr |-> NoIrr, lp_irr |-> NoIrr]
    ELSE [raised |-> FALSE,
          deal_irr |-> [defined |-> TRUE, irr |-> Frac(30 + pr - 2 * ec, 200)],
          lp_irr |-> [defined |-> TRUE, irr |-> Frac(28 + pr - 2 * ec, 200)]]

SweepTenantLists ==
    {<<>>} \cup {<<t>> : t \in TenantSet}
    \cup {<<t, u>> : t \in {v \in TenantSet : v.name = "B"},
                     u \in {v \in TenantSet : v.name = "C"}}

SweepCashSet == {<<4, 10, 60>>, <<-5, 0, 10>>}

SweepInputs ==
    [tenants : SweepTenantLists, cash : SweepCashSet, outcomes : SweepOutcomeSet]

\* the terms of the waterfall of the run
sweep_terms ==
    [lp_equity |-> R(90), gp_equity |-> R(10), pref_rate |-> R(10),
     gp_profit_share |-> R(20), include_catchup |-> TRUE]

InitSweep ==
    /\ pc = "run_noi"
    /\ \E i \in SweepInputs :
           sweep = [tenants |-> i.tenants,
                    holding_period |-> Len(i.cash),
                    cf_df |-> [y \in 1..Len(i.cash) |->
                                  [Year |-> y, Cash_Available |-> R(i.cash[y])]],
                    outcomes |-> i.outcomes,
                    perm_rate |-> R(6),
                    noi_df |-> <<>>,
                    waterfall_df |-> <<>>,
                    sens1_data |-> <<>>,
                    sens2_data |-> <<>>,
                    row_vals |-> <<>>,
                    cells |-> 0,
                    aborted |-> FALSE]
    /\ irr_in = Idle
    /\ irr_out = Idle
    /\ quick_state = Idle
    /\ NoCash
    /\ dist = Idle
    /\ dist_in = Idle
    /\ NoWaterfall
    /\ NoFinancing
    /\ NoLease
    /\ NoExit

\* line 527, and again in the next run of the script
RunNoi ==
    /\ pc \in {"run_noi", "rerun_noi"}
    /\ \E r \in {multi_tenant_noi_call(sweep.tenants, sweep.holding_period)} :
           sweep' = [noi_df |-> r.noi_df, tenants |-> r.tenants_list] @@ sweep
    /\ pc' = IF pc = "run_noi" THEN "run_waterfall" ELSE "rerun_waterfall"
    /\ UNCHANGED <<wf_in, wf_state, dist, dist_in, fin_vars, lease_vars, exit_vars,
                   irr_in, irr_out, quick_state, cash_in, cash_state, quick_cash>>

\* lines 1033-1036, and again in the next run of the script
RunWaterfall ==
    /\ pc \in {"run_waterfall", "rerun_waterfall"}
    /\ \E r \in {multi_year_waterfall_call(sweep.cf_df, sweep_terms)} :
           sweep' = [waterfall_df |-> r.waterfall_df, cf_df |-> r.cf_df] @@ sweep
    /\ pc' = IF pc = "run_waterfall" THEN "sweep_1" ELSE "rerun_done"
    /\ UNCHANGED <<wf_in, wf_state, dist, dist_in, fin_vars, lease_vars, exit_vars,
                   irr_in, irr_out, quick_state, cash_in, cash_state, quick_cash>>

\* The table being filled
sweep_table == IF pc = "sweep_1" THEN 1 ELSE 2

\* lines 1776-1778 and 1791-1793: the next cell of the row
SweepCell ==
    /\ pc \in {"sweep_1", "sweep_2"}
    /\ ~sweep.aborted
    /\ Len(sweep.row_vals) < Len(exit_cap_range)
    /\ \E table \in {sweep_table} :
       \E pr \in {(IF table = 1 THEN Len(sweep.sens1_data) ELSE Len(sweep.sens2_data)) + 1} :
       \E r \in {quick_deal_irr(try_body(sweep.outcomes, pr, Len(sweep.row_vals) + 1))} :
       \E d \in {cell_appended(sweep, table, r)} :
           sweep' = [cells |-> sweep.cells + 1] @@ d
    /\ pc' = pc
    /\ UNCHANGED <<wf_in, wf_state, dist, dist_in, fin_vars, lease_vars, exit_vars,
                   irr_in, irr_out, quick_state, cash_in, cash_state, quick_cash>>

\* lines 1779 and 1794: the row is stored; after the last row of a table the
\* script goes on
SweepRow ==
    /\ pc \in {"sweep_1", "sweep_2"}
    /\ ~sweep.aborted
    /\ Len(sweep.row_vals) = Len(exit_cap_range)
    /\ \E table \in {sweep_table} :
       \E d \in {row_stored(sweep, table)} :
         /\ sweep' = d
         /\ pc' = IF table = 1
                  THEN IF Len(d.sens1_data) = Len(perm_rate_deltas)
                       THEN "sweep_2" ELSE "sweep_1"
                  ELSE IF Len(d.sens2_data) = Len(perm_rate_deltas)
                       THEN "rerun_noi" ELSE "sweep_2"
    /\ UNCHANGED <<wf_in, wf_state, dist, dist_in, fin_vars, lease_vars, exit_vars,
                   irr_in, irr_out, quick_state, cash_in, cash_state, quick_cash>>

NextSweep == RunNoi \/ RunWaterfall \/ SweepCell \/ SweepRow

SpecSweep == InitSweep /\ [][NextSweep]_vars

---------------------------------------------------------------------------
(* Claims about the annual distribution waterfall.                         *)

Rows == 1..Len(waterfall_data)
Returned == pc = "dist_returned"

\* C1: in every row produced by calculate_multi_year_waterfall, for any yearly
\* Cash Available (positive, zero or negative) and non-negative equity and pref
\* rate, the LP Pref Deficit and the GP Pref Deficit are >= 0.
C1_DeficitNonNegative ==
    \A i \in Rows :
        /\ RGe(waterfall_data[i].LP_Pref_Deficit, Zero)
        /\ RGe(waterfall_data[i].GP_Pref_Deficit, Zero)

\* C1 witness: a year of negative cash left both deficits positive and a later
\* year of ample cash paid them off.
C1_Witness ==
    \E i, j \in Rows :
        /\ i < j
        /\ RLt(waterfall_data[i].Cash_Available, Zero)
        /\ RGt(waterfall_data[i].LP_Pref_Deficit, Zero)
        /\ RGt(waterfall_data[i].GP_Pref_Deficit, Zero)
        /\ RGt(waterfall_data[j].LP_Pref, Zero)
        /\ waterfall_data[j].LP_Pref_Deficit = Zero
        /\ waterfall_data[j].GP_Pref_Deficit = Zero

\* The last two rows of the table; dist is the distribution of the last one.
LastTwo == Len(waterfall_data) >= 2
PrevRow == waterfall_data[Len(waterfall_data) - 1]
LastRow == waterfall_data[Len(waterfall_data)]
LpDeficitFell == RLt(LastRow.LP_Pref_Deficit, PrevRow.LP_Pref_Deficit)
GpDeficitFell == RLt(LastRow.GP_Pref_Deficit, PrevRow.GP_Pref_Deficit)
PrefFullyCovered ==
    RAdd(dist.lp_pref_paid, dist.gp_pref_paid) = RAdd(dist.lp_pref_owed, dist.gp_pref_owed)

\* C2 as stated: a party's carried deficit is lower at the end of a year than at
\* the end of the previous year only if that year's pref payment equals the
\* total pref owed (prior deficit plus current-year preference).
C2_DecreaseOnlyWhenFullyCovered ==
    LastTwo => /\ LpDeficitFell => PrefFullyCovered
               /\ GpDeficitFell => PrefFullyCovered

\* C2 amended: a party's carried deficit is lower at the end of a year than at
\* the end of the previous year only if that year's pref payment to the party
\* exceeds the party's current-year preference; in every other year it does not
\* decrease.
C2_DecreaseOnlyWhenPaidBeyondCurrent ==
    LastTwo => /\ LpDeficitFell => RGt(dist.lp_pref_paid, dist.lp_pref_current)
               /\ GpDeficitFell => RGt(dist.gp_pref_paid, dist.gp_pref_current)

\* C2 witness: both deficits fell in a year whose cash paid more than the
\* current preference and less than everything owed.
C2_Witness ==
    /\ LastTwo
    /\ LpDeficitFell
    /\ GpDeficitFell
    /\ ~PrefFullyCovered
    /\ RGt(LastRow.LP_Pref_Deficit, Zero)

RowTiers(r) ==
    RAdd(RAdd(RAdd(r.LP_Pref, r.GP_Pref), r.GP_Catch_up), RAdd(r.LP_Split, r.GP_Split))

\* C3: in every row, LP Total + GP Total equals the sum of LP pref, GP pref, GP
\* catch-up, LP split and GP split, and that sum equals Cash Available when it
\* is positive and zero otherwise, with and without the catch-up tier.
C3_Conservation ==
    \A i \in Rows :
        LET r == waterfall_data[i] IN
        /\ RAdd(r.LP_Total, r.GP_Total) = RowTiers(r)
        /\ RowTiers(r) = RMax(r.Cash_Available, Zero)

\* C3 witness: one table holds a year that paid pref, catch-up and both splits
\* and a year without cash.
C3_Witness ==
    \E i, j \in Rows :
        /\ RGt(waterfall_data[i].LP_Pref, Zero)
        /\ RGt(waterfall_data[i].GP_Pref, Zero)
        /\ RGt(waterfall_data[i].GP_Catch_up, Zero)
        /\ RGt(waterfall_data[i].LP_Split, Zero)
        /\ RGt(waterfall_data[i].GP_Split, Zero)
        /\ RLe(waterfall_data[j].Cash_Available, Zero)
        /\ RowTiers(waterfall_data[j]) = Zero

\* The catch-up the claim states: share * pref_paid_total / (1 - share) - GP pref paid.
StatedCatchupTarget ==
    RSub(RDiv(RMul(Pct(R(dist_in.gp_profit_share)),
                   RAdd(dist.lp_pref_paid, dist.gp_pref_paid)),
              RSub(One, Pct(R(dist_in.gp_profit_share)))),
         dist.gp_pref_paid)

\* C4: when the catch-up tier runs and the cash left after the pref tier covers
\* the target, GP's pref paid + catch-up equals gp_profit_share% of (LP pref paid
\* + GP pref paid + catch-up), i.e. the catch-up is share * pref_paid_total /
\* (1 - share) - GP pref paid; the catch-up always lies in [0, remaining cash].
C4_CatchupReachesShare ==
    Returned =>
        /\ RGe(dist.gp_catchup, Zero)
        /\ RLe(dist.gp_catchup, RMax(dist.cash_after_pref, Zero))
        /\ (/\ dist.catchup_tier
            /\ RGe(StatedCatchupTarget, Zero)
            /\ RGe(dist.cash_after_pref, dist.target_gp_catchup))
           => /\ dist.gp_catchup = StatedCatchupTarget
              /\ RAdd(dist.gp_pref_paid, dist.gp_catchup)
                   = RMul(Pct(R(dist_in.gp_profit_share)),
                          RAdd(RAdd(dist.lp_pref_paid, dist.gp_pref_paid), dist.gp_catchup))

\* What the arguments of the direct call owe, from lines 30-37.
LpOwedIn == RAdd(RMul(R(dist_in.lp_equity), Frac(dist_in.pref_rate, 100)),
                 R(dist_in.lp_cumulative_deficit))
GpOwedIn == RAdd(RMul(R(dist_in.gp_equity), Frac(dist_in.pref_rate, 100)),
                 R(dist_in.gp_cumulative_deficit))
PrefPaidOut == RAdd(dist.lp_pref_paid, dist.gp_pref_paid)

\* C5: the pref paid in a year is min(cash available, LP owed + GP owed) when
\* cash is positive and zero otherwise; it is divided between LP and GP in
\* proportion to the amounts owed (current pref + carried deficit); each new
\* deficit is the amount owed minus the amount paid.
C5_PrefProRataByOwed ==
    Returned =>
        /\ PrefPaidOut = IF dist_in.cash_available > 0
                         THEN RMin(R(dist_in.cash_available), RAdd(LpOwedIn, GpOwedIn))
                         ELSE Zero
        /\ RMul(dist.lp_pref_paid, RAdd(LpOwedIn, GpOwedIn)) = RMul(PrefPaidOut, LpOwedIn)
        /\ RMul(dist.gp_pref_paid, RAdd(LpOwedIn, GpOwedIn)) = RMul(PrefPaidOut, GpOwedIn)
        /\ dist.new_lp_deficit = RSub(LpOwedIn, dist.lp_pref_paid)
        /\ dist.new_gp_deficit = RSub(GpOwedIn, dist.gp_pref_paid)

\* C5 witness: cash short of what is owed was divided in the proportion of the
\* amounts owed, which is not the proportion of the equity contributions.
C5_Witness ==
    /\ Returned
    /\ dist_in.cash_available > 0
    /\ RLt(R(dist_in.cash_available), RAdd(LpOwedIn, GpOwedIn))
    /\ RGt(dist.lp_pref_paid, Zero)
    /\ RGt(dist.gp_pref_paid, Zero)
    /\ RMul(LpOwedIn, R(dist_in.gp_equity)) # RMul(GpOwedIn, R(dist_in.lp_equity))

---------------------------------------------------------------------------
(* Claims about the amortization engine.                                   *)

Calls == 1..Len(balance)
Principal == R(loan_in.loan_amount)
Term == loan_in.terms[2]

\* C6: the amortizing balance functions (calculate_perm_loan_balance, and
\* calculate_bridge_loan_balance with is_io false) return the principal at
\* elapsed year 0 and 0 at elapsed year = term, for every positive principal,
\* rate >= 0 and positive term.
C6_AmortizationRoundTrip ==
    \A i \in Calls :
        LET b == balance[i] IN
        /\ b.year = 0 => /\ b.perm = Principal
                         /\ ~loan_in.is_io => b.bridge = Principal
        /\ b.year = Term => /\ b.perm = Zero
                            /\ ~loan_in.is_io => b.bridge = Zero

\* C6 witness: an amortizing loan at a nonzero rate went from the principal at
\* year 0 through a balance strictly between to 0 at its term.
C6_Witness ==
    /\ Len(balance) >= 3
    /\ loan_in.terms[1] > 0
    /\ ~loan_in.is_io
    /\ Term = 2
    /\ balance[1].bridge = Principal
    /\ RLt(balance[2].perm, Principal)
    /\ RGt(balance[2].perm, Zero)
    /\ balance[3].perm = Zero
    /\ balance[3].bridge = Zero

\* C7: for an amortizing loan the balance is >= 0 for every elapsed year, is 0
\* for every elapsed year >= term, at every rate including zero, and does not
\* increase from one elapsed year to the next.
C7_BalanceNonNegativeAndZeroAfterTerm ==
    \A i \in Calls :
        LET b == balance[i] IN
        /\ RGe(b.perm, Zero)
        /\ ~loan_in.is_io => RGe(b.bridge, Zero)
        /\ b.year >= Term => /\ b.perm = Zero
                             /\ ~loan_in.is_io => b.bridge = Zero
        /\ i > 1 => /\ RLe(b.perm, balance[i - 1].perm)
                    /\ RLe(b.bridge, balance[i - 1].bridge)

---------------------------------------------------------------------------
(* Claims about loan sizing and the refinance engine.                      *)

RefiReturned == pc = "refi_returned"
Args == refi_args(refi_in)
DebtServiceCapacity == RDiv(Args.noi_at_refi, Args.target_dscr)

\* the constraint-sized loan, from the returned maxima
ConstraintSizedLoan ==
    IF Args.use_conservative
    THEN RMin(refi.max_loan_by_ltv, refi.max_loan_by_dscr)
    ELSE RMax(refi.max_loan_by_ltv, refi.max_loan_by_dscr)
BindingMaximum ==
    IF refi.binding_constraint = "LTV" THEN refi.max_loan_by_ltv ELSE refi.max_loan_by_dscr

\* C8: max_loan_by_ltv is value * ltv% and max_loan_by_dscr is the loan whose
\* level payment is noi / target_dscr; before any cash-out adjustment the
\* selected loan is the minimum of the two when use_conservative and the maximum
\* otherwise, in calculate_refinance and in the acquisition sizing alike; the
\* recorded binding_constraint is 'LTV' or 'DSCR' and names a constraint whose
\* maximum equals the selected loan, also when the two maxima are equal.
C8_LoanSizing ==
    /\ pc \in {"refi_call", "refi_returned"} =>
         /\ acq.max_loan_by_ltv = RMul(Args.purchase_price, Frac(refi_in.perm_ltv, 100))
         /\ calculate_perm_loan_payment(acq.max_loan_by_dscr, Args.perm_rate, Args.perm_amort)
              = DebtServiceCapacity
         /\ acq.initial_loan_amount =
              IF Args.use_conservative
              THEN RMin(acq.max_loan_by_ltv, acq.max_loan_by_dscr)
              ELSE RMax(acq.max_loan_by_ltv, acq.max_loan_by_dscr)
    /\ RefiReturned =>
         /\ refi.max_loan_by_ltv = RMul(refi.property_value, Frac(refi_in.perm_ltv, 100))
         /\ calculate_perm_loan_payment(refi.max_loan_by_dscr, Args.perm_rate, Args.perm_amort)
              = DebtServiceCapacity
         /\ refi.sized_loan = ConstraintSizedLoan
         /\ refi.binding_constraint \in {"LTV", "DSCR"}
         /\ BindingMaximum = refi.sized_loan

\* C8 witness: a conservative refinance whose two maxima are equal.
C8_WitnessTie ==
    /\ RefiReturned
    /\ Args.use_conservative
    /\ refi.max_loan_by_ltv = refi.max_loan_by_dscr
    /\ refi.sized_loan = refi.max_loan_by_ltv

\* the proceeds of the constraint-sized loan, from the returned values
ProceedsBeforeLimit ==
    RSub(RSub(ConstraintSizedLoan, refi.bridge_payoff), refi.total_refi_costs)

\* C9: when allow_cashout is false calculate_refinance never reports positive
\* net proceeds; if the constraint-sized loan would yield positive proceeds the
\* new loan is exactly bridge payoff + total refinance costs, net_proceeds is 0
\* and cashout_limited is true.
C9_NoCashoutNoProceeds ==
    (RefiReturned /\ ~Args.allow_cashout) =>
        /\ RLe(refi.net_proceeds, Zero)
        /\ RGt(ProceedsBeforeLimit, Zero) =>
             /\ refi.new_loan_amount = RAdd(refi.bridge_payoff, refi.total_refi_costs)
             /\ refi.net_proceeds = Zero
             /\ refi.cashout_limited

\* C9 witness: cash-out disallowed, the sized loan exceeded payoff plus nonzero
\* costs and was reduced.
C9_Witness ==
    /\ RefiReturned
    /\ ~Args.allow_cashout
    /\ RGt(ProceedsBeforeLimit, Zero)
    /\ RGt(refi.total_refi_costs, Zero)
    /\ RGt(refi.bridge_payoff, Zero)
    /\ RLt(refi.new_loan_amount, ConstraintSizedLoan)
    /\ refi.cashout_limited

CashoutLimit ==
    RMul(RSub(refi.property_value, Args.purchase_price), Frac(refi_in.cashout[2], 100))

\* C10 as stated: when allow_cashout is true the returned net_proceeds never
\* exceed max_cashout_pct% of (property_value - purchase_price), for every
\* valuation, sizing, payoff and costs; when the proceeds before the limit exceed
\* it the loan is reduced so that net_proceeds equals the limit.
C10_ProceedsNeverExceedLimit ==
    (RefiReturned /\ Args.allow_cashout) =>
        /\ RLe(refi.net_proceeds, CashoutLimit)
        /\ RGt(ProceedsBeforeLimit, CashoutLimit) =>
             /\ refi.net_proceeds = CashoutLimit
             /\ refi.new_loan_amount =
                  RAdd(RAdd(refi.bridge_payoff, refi.total_refi_costs), CashoutLimit)

\* C10 amended: when allow_cashout is true and the proceeds of the
\* constraint-sized loan are positive, the returned net_proceeds never exceed
\* max_cashout_pct% of (property_value - purchase_price), and when those
\* proceeds exceed the limit the loan is reduced so that net_proceeds equals the
\* limit; proceeds that are not positive are returned unchanged, whatever the
\* limit is.
C10_PositiveProceedsCapped ==
    (RefiReturned /\ Args.allow_cashout) =>
        /\ RGt(ProceedsBeforeLimit, Zero) =>
             /\ RLe(refi.net_proceeds, CashoutLimit)
             /\ RGt(ProceedsBeforeLimit, CashoutLimit) =>
                  /\ refi.net_proceeds = CashoutLimit
                  /\ refi.cashout_limited
                  /\ refi.new_loan_amount =
                       RAdd(RAdd(refi.bridge_payoff, refi.total_refi_costs), CashoutLimit)
        /\ RLe(ProceedsBeforeLimit, Zero) =>
             /\ refi.net_proceeds = ProceedsBeforeLimit
             /\ refi.new_loan_amount = ConstraintSizedLoan
             /\ ~refi.cashout_limited

\* C10 witness: an equity gain of 100 at 80%: the sized loan would give more
\* than 80 and the returned net proceeds are 80.
C10_Witness ==
    /\ RefiReturned
    /\ Args.allow_cashout
    /\ RSub(refi.property_value, Args.purchase_price) = R(100)
    /\ refi_in.cashout[2] = 80
    /\ RGt(ProceedsBeforeLimit, R(80))
    /\ refi.net_proceeds = R(80)
    /\ refi.cashout_limited

---------------------------------------------------------------------------
(* Claims about the refinancing costs and the returned net proceeds.       *)

\* C11: in every result of calculate_refinance the prepayment penalty is the
\* bridge payoff times the penalty percentage, the permanent origination is
\* the RETURNED new_loan_amount times perm_orig_points percent, and
\* total_refi_costs is their sum plus the legal costs, also when the loan was
\* reduced by the cash-out step.
C11_CostsOfReturnedLoan ==
    RefiReturned =>
        /\ refi.prepayment_penalty =
             RMul(refi.bridge_payoff, Pct(Args.bridge_prepay_penalty_pct))
        /\ refi.perm_origination =
             RMul(refi.new_loan_amount, Pct(Args.perm_orig_points))
        /\ refi.total_refi_costs =
             RAdd(RAdd(refi.prepayment_penalty, refi.perm_origination),
                  refi.refi_legal_costs)

\* C12: in every branch the returned net_proceeds equal new_loan_amount -
\* bridge_payoff - total_refi_costs, and a negative amount is returned as a
\* normal result with cashout_limited false.
C12_NetProceedsIdentity ==
    RefiReturned =>
        /\ refi.net_proceeds =
             RSub(RSub(refi.new_loan_amount, refi.bridge_payoff),
                  refi.total_refi_costs)
        /\ RLt(refi.net_proceeds, Zero) => ~refi.cashout_limited

---------------------------------------------------------------------------
(* Claims about the lease: refinance feasibility and the NOI projections.  *)

FeasReturned == pc = "feas_returned"

\* The minimum term the call was made with: 7 when none was passed.
MinTermOfCall == IF feas_in.pass_min_term THEN feas_in.min_term_required ELSE 7

CurrentTermAtRefi == feas_in.current_term_remaining - feas_in.refi_year

CurrentTermSuffices == CurrentTermAtRefi >= MinTermOfCall

RenewalSuffices ==
    /\ feas_in.options_remaining > 0
    /\ CurrentTermAtRefi + feas_in.options_remaining * feas_in.option_term
         >= MinTermOfCall

\* C13: check_refi_feasibility_with_lease returns exactly one of three
\* outcomes: feasible with the current term iff current_term_remaining -
\* refi_year >= min_term_required; otherwise feasible with a renewal required
\* iff options remain and the current term plus all option terms reaches the
\* minimum; otherwise not feasible.  min_term_required is 7 when not passed.
C13_FeasibilityClassification ==
    FeasReturned =>
        /\ feas.status \in {"Feasible with current term",
                            "Requires tenant to exercise renewal option",
                            "Not feasible - insufficient lease term"}
        /\ feas.status = "Feasible with current term" <=> CurrentTermSuffices
        /\ feas.status = "Requires tenant to exercise renewal option"
             <=> (~CurrentTermSuffices /\ RenewalSuffices)
        /\ feas.status = "Not feasible - insufficient lease term"
             <=> (~CurrentTermSuffices /\ ~RenewalSuffices)
        /\ feas.feasible <=> (CurrentTermSuffices \/ RenewalSuffices)

\* C13 witness: 8 years remain, refinance in year 3, no minimum passed: 5 < 7,
\* and one 5-year option gives 10 >= 7, so a renewal is required.
C13_Witness ==
    /\ FeasReturned
    /\ ~feas_in.pass_min_term
    /\ feas_in.current_term_remaining = 8
    /\ feas_in.refi_year = 3
    /\ feas_in.options_remaining = 1
    /\ feas_in.option_term = 5
    /\ feas.status = "Requires tenant to exercise renewal option"
    /\ feas.requirement = <<"Must secure renewal commitment before Year", 3>>

NoiRows == 1..Len(noi_schedule)
NoiReturned == pc = "noi_returned"
Tenants == noi_in.tenants_list

\* ceil(a / b) for b > 0
Ceil(a, b) == -((-a) \div b)

RenewalOptionIndex(t, y) == Ceil(y - t.lease_expiration_year, t.option_term)

PastTerm(t, y) == t.status = "Occupied" /\ y > t.lease_expiration_year

Expired(t, y) == PastTerm(t, y) /\ RenewalOptionIndex(t, y) > t.renewal_options

Contributes(t, y) == t.status = "Occupied" /\ ~Expired(t, y)

Label(t, y) ==
    IF t.status = "Vacant" THEN t.name \o ": Vacant"
    ELSE IF ~PastTerm(t, y) THEN t.name \o ": Active"
    ELSE IF Expired(t, y) THEN t.name \o ": EXPIRED"
    ELSE t.name \o ": Option " \o ToString(RenewalOptionIndex(t, y))

RECURSIVE JoinedLabels(_, _)
JoinedLabels(n, y) ==
    IF n = 1 THEN Label(Tenants[1], y)
    ELSE JoinedLabels(n - 1, y) \o " | " \o Label(Tenants[n], y)

\* The sum of the first n of a sequence of amounts
RECURSIVE SumOfRents(_, _)
SumOfRents(n, rents) ==
    IF n = 0 THEN Zero ELSE RAdd(SumOfRents(n - 1, rents), rents[n])

\* What each tenant adds to the NOI of year y, by the model's rent
ModelContributions(y) ==
    [k \in 1..Len(Tenants) |->
        IF Contributes(Tenants[k], y) THEN tenant_current_rent(Tenants[k], y) ELSE Zero]

\* C14: in calculate_multi_tenant_noi an occupied tenant in a year past its
\* remaining term is in renewal option ceil((year - lease_expiration_year) /
\* option_term); it is labelled 'Option N' and pays rent while N <=
\* renewal_options, and once it is labelled EXPIRED in a year it is EXPIRED
\* and adds nothing to the NOI in every later year of the schedule.
C14_RenewalOptionsThenExpired ==
    \A i \in NoiRows :
        /\ Len(Tenants) > 0 =>
             noi_schedule[i].Lease_Status = JoinedLabels(Len(Tenants), i)
        /\ noi_schedule[i].NOI = SumOfRents(Len(Tenants), ModelContributions(i))
        /\ \A k \in 1..Len(Tenants) : \A j \in NoiRows :
             (j < i /\ Expired(Tenants[k], j)) => Expired(Tenants[k], i)

\* C14 witness: a tenant with one year left and one 2-year option is in
\* 'Option 1' in years 2 and 3 and EXPIRED with no NOI from year 4 to year 6.
C14_Witness ==
    /\ NoiReturned
    /\ Len(Tenants) = 1
    /\ Tenants[1].lease_expiration_year = 1
    /\ Tenants[1].option_term = 2
    /\ Tenants[1].renewal_options = 1
    /\ Len(noi_schedule) = 6
    /\ noi_schedule[3].Lease_Status = "B: Option 1"
    /\ RGt(noi_schedule[3].NOI, Zero)
    /\ \A i \in 4..6 : /\ noi_schedule[i].Lease_Status = "B: EXPIRED"
                      /\ noi_schedule[i].NOI = Zero

StatedYearsSinceStart(t, y) == t.years_elapsed + (y - 1)

StatedRent(t, y) ==
    IF t.escalation_type = FixedBumps
    THEN RMul(R(t.annual_rent),
              RPow(RAdd(One, Pct(R(t.bump_percentage))),
                   StatedYearsSinceStart(t, y) \div t.bump_frequency))
    ELSE IF t.escalation_type = AnnualEscalator
    THEN RMul(R(t.annual_rent),
              RPow(RAdd(One, Pct(R(t.annual_escalator))), StatedYearsSinceStart(t, y)))
    ELSE R(t.annual_rent)

StatedContributions(y) ==
    [k \in 1..Len(Tenants) |->
        IF Contributes(Tenants[k], y) THEN StatedRent(Tenants[k], y) ELSE Zero]

\* C15: the schedule of calculate_multi_tenant_noi has one row per year
\* 1..holding_period in increasing order; a paying tenant's rent in year y is
\* base*(1+bump%)^floor(s/N), base*(1+escalator%)^s or base (fixed bumps,
\* annual escalator, flat) with s = years_elapsed + (y - 1); a vacant tenant
\* adds nothing and the NOI of the year is the sum of the rents.
C15_ScheduleAndRents ==
    /\ Len(noi_schedule) <= noi_in.holding_period
    /\ NoiReturned => Len(noi_schedule) = noi_in.holding_period
    /\ \A i \in NoiRows :
         /\ noi_schedule[i].Year = i
         /\ noi_schedule[i].NOI = SumOfRents(Len(Tenants), StatedContributions(i))

\* C15 witness: base 100,000 with 10% every 5 years and 0 years elapsed gives
\* 100,000 in years 1-5 and 110,000 in year 6.
C15_Witness ==
    /\ NoiReturned
    /\ Len(Tenants) = 1
    /\ Tenants[1].annual_rent = 100000
    /\ Tenants[1].bump_frequency = 5
    /\ Tenants[1].bump_percentage = 10
    /\ Tenants[1].years_elapsed = 0
    /\ Len(noi_schedule) = 6
    /\ \A i \in 1..5 : noi_schedule[i].NOI = R(100000)
    /\ noi_schedule[6].NOI = R(110000)

\* C16: in any year in which every tenant of a non-empty tenant list is
\* vacant or expired, the Lease Status of the year is "All Vacant".
C16_AllVacantStatus ==
    \A i \in NoiRows :
        (/\ Len(Tenants) > 0
         /\ \A k \in 1..Len(Tenants) : ~tenant_lease_status(Tenants[k], i).pays)
        => noi_schedule[i].Lease_Status = "All Vacant"

LeaseNoiReturned == pc = "lease_noi_returned"

\* floor((years_elapsed + y - 1) / N) - floor(years_elapsed / N)
BumpsCrossedSinceAcquisition(y) ==
    (noi_in.years_elapsed + y - 1) \div noi_in.bump_frequency
      - noi_in.years_elapsed \div noi_in.bump_frequency

\* C17: in calculate_noi_projection_with_lease the NOI of year 1 is base_rent
\* for every rent structure and every years_elapsed; for fixed bumps the
\* exponent of year y is floor((years_elapsed + y - 1)/N) -
\* floor(years_elapsed/N); with non-negative bump percentages the NOI never
\* decreases from one year to the next.
C17_NoRetroactiveBump ==
    pc \in {"lease_noi_loop", "lease_noi_returned"} =>
      \A y \in NoiRows :
        /\ y = 1 => noi_schedule[y].NOI = R(noi_in.base_rent)
        /\ (noi_in.rent_structure_type = FixedBumps /\ noi_in.bump_frequency > 0) =>
             noi_schedule[y].NOI =
               RMul(R(noi_in.base_rent),
                    RPow(RAdd(One, Pct(R(noi_in.bump_pct))),
                         BumpsCrossedSinceAcquisition(y)))
        /\ y > 1 => RGe(noi_schedule[y].NOI, noi_schedule[y - 1].NOI)

\* C17 witness: 4 years elapsed and 50% every 5 years: year 1 pays the base
\* rent 100 and the bump of lease year 5 raises year 2 to 150.
C17_Witness ==
    /\ LeaseNoiReturned
    /\ noi_in.rent_structure_type = FixedBumps
    /\ noi_in.years_elapsed = 4
    /\ noi_in.bump_frequency = 5
    /\ noi_in.bump_pct = 50
    /\ noi_in.base_rent = 100
    /\ Len(noi_schedule) = 6
    /\ noi_schedule[1].NOI = R(100)
    /\ noi_schedule[2].NOI = R(150)
    /\ noi_schedule[6].NOI = R(150)

---------------------------------------------------------------------------
(* Claims about the exit waterfall.                                        *)

AfterCapital == pc \in {"exit_pref", "exit_catchup", "exit_residual", "exit_done"}
AfterPref == pc \in {"exit_catchup", "exit_residual", "exit_done"}
AfterCatchup == pc \in {"exit_residual", "exit_done"}
ExitDone == pc = "exit_done"

GrossProceeds ==
    RSub(RSub(R(exit_in.sale_price), R(exit_in.exit_loan_balance)),
         R(exit_in.total_sale_costs))
TotalInvested == R(exit_in.lp_equity + exit_in.gp_equity)
CarriedLpDeficit == waterfall_data[Len(waterfall_data)].LP_Pref_Deficit
CarriedGpDeficit == waterfall_data[Len(waterfall_data)].GP_Pref_Deficit
CarriedDeficit == RAdd(CarriedLpDeficit, CarriedGpDeficit)
CapitalFullyReturned == exit_state.capital_returned = TotalInvested
DeficitFullyPaid == exit_state.pref_catchup_paid = CarriedDeficit
Residual == exit_state.remaining_after_catchup

StatedDealStream ==
    <<RNeg(TotalInvested)>> \o
    [i \in 1..Len(waterfall_data) |->
        RAdd(RAdd(waterfall_data[i].LP_Total, waterfall_data[i].GP_Total),
             IF i = Len(waterfall_data) THEN GrossProceeds ELSE Zero)]

StatedDealIrr == calc_irr_local(StatedDealStream)

HurdleExceeded ==
    /\ StatedDealIrr.defined
    /\ RGt(RMul(StatedDealIrr.irr, Hundred), exit_in.promote_hurdle_irr)

SplitAt(gp_share) ==
    /\ exit_state.gp_exit_split = RDiv(RMul(Residual, R(gp_share)), Hundred)
    /\ exit_state.lp_exit_split = RDiv(RMul(Residual, R(100 - gp_share)), Hundred)

\* C19: in IRR-Based Promote mode the trigger IRR is solved on the deal
\* stream [-(LP + GP equity), LP Total + GP Total of each year, with the gross
\* exit equity proceeds added to the final year]; the residual is split at
\* gp_promote_share exactly when that IRR is defined and strictly greater than
\* the hurdle, and at gp_profit_share otherwise.
C19_PromoteAboveHurdle ==
    (ExitDone /\ exit_in.promote_mode = IrrBasedPromote) =>
        /\ exit_state.actual_deal_irr = StatedDealIrr
        /\ exit_state.promote_triggered <=> HurdleExceeded
        /\ HurdleExceeded => SplitAt(exit_in.gp_promote_share)
        /\ ~HurdleExceeded => SplitAt(exit_in.gp_profit_share)

\* C19 witness: 80 invested, 30 distributed in each of two years and 195 of
\* gross exit proceeds give a deal IRR of 87.5%; against a hurdle of 50% the
\* residual of 115 is split 60% GP / 40% LP.
C19_Witness ==
    /\ ExitDone
    /\ exit_in.promote_mode = IrrBasedPromote
    /\ Len(waterfall_data) = 2
    /\ exit_in.promote_hurdle_irr = R(50)
    /\ exit_in.gp_profit_share = 20
    /\ exit_state.actual_deal_irr = [defined |-> TRUE, irr |-> Frac(7, 8)]
    /\ exit_state.promote_triggered
    /\ Residual = R(115)
    /\ exit_state.gp_exit_split = R(69)
    /\ exit_state.lp_exit_split = R(46)

\* LP's IRR when it receives the given part of the residual at the exit
LpIrrWith(lp_residual) ==
    calc_irr_local(
        <<RNeg(R(exit_in.lp_equity))>> \o
        [i \in 1..Len(waterfall_data) |->
            RAdd(waterfall_data[i].LP_Total,
                 IF i = Len(waterfall_data)
                 THEN RAdd(RAdd(exit_state.lp_capital_return, exit_state.lp_pref_catchup),
                           lp_residual)
                 ELSE Zero)])

LpCap == RDiv(exit_in.lp_irr_cap, Hundred)

CapNotReached == LpIrrWith(Residual).defined /\ RLe(LpIrrWith(Residual).irr, LpCap)

CapAlreadyMet == LpIrrWith(Zero).defined /\ RGe(LpIrrWith(Zero).irr, LpCap)

LpIrrAtCap ==
    LET irr == LpIrrWith(exit_state.lp_exit_split)
    IN  /\ irr.defined
        /\ RLt(RSub(irr.irr, LpCap), Frac(1, 10000))
        /\ RLt(RSub(LpCap, irr.irr), Frac(1, 10000))

\* C20: in LP Return Cap mode, if LP's IRR with 100% of the residual is at or
\* below the cap the residual is split at the base rate; if LP's IRR with none
\* of the residual already meets the cap LP receives 0 and GP the residual;
\* otherwise LP receives the part of the residual at which its IRR equals the
\* cap within the search tolerance, and GP the rest.
C20_LpReturnCap ==
    (ExitDone /\ exit_in.promote_mode = LpReturnCap) =>
        IF CapNotReached THEN SplitAt(exit_in.gp_profit_share)
        ELSE IF CapAlreadyMet
        THEN exit_state.lp_exit_split = Zero /\ exit_state.gp_exit_split = Residual
        ELSE /\ LpIrrAtCap
             /\ exit_state.gp_exit_split = RSub(Residual, exit_state.lp_exit_split)

---------------------------------------------------------------------------
(* Claims about the IRR solvers and the display of an IRR.                 *)

IrrSolved == pc \in {"irr_solved", "irr_displayed"}
IrrDisplayed == pc = "irr_displayed"

RECURSIVE SumSeq(_)
SumSeq(s) == IF s = <<>> THEN Zero ELSE RAdd(Head(s), SumSeq(Tail(s)))

\* Nothing is received, on balance, after year 0.
NoReturnAfterYearZero == RLe(SumSeq(Tail(irr_in.cashflows)), Zero)

SolverResults == {irr_out.local, irr_out.full, irr_out.quick}

\* What the solvers are stated to return.
SolversAsStated ==
    \A r \in SolverResults :
        /\ ~r.defined <=> NoReturnAfterYearZero
        /\ r.defined =>
              /\ irr_out.steps \in 1..irr_iterations
              /\ RGe(r.irr, Frac(-50, 100))
              /\ RLe(r.irr, Frac(500, 100))

DisplayedTexts ==
    {irr_out.metric, irr_out.cell, irr_out.report} \cup
    {irr_out.status[i] : i \in DOMAIN irr_out.status}

\* C21: each of the three IRR solvers returns None exactly when the cash flows
\* after year 0 sum to zero or less; otherwise it ends within 200 bisection
\* steps with a rate in [-50%, 500%]; and every place that displays an IRR
\* shows "N/A" for None.
C21_UndefinedIrrShownAsNA ==
    /\ IrrSolved => SolversAsStated
    /\ (IrrDisplayed /\ NoReturnAfterYearZero) => DisplayedTexts = {"N/A"}

---------------------------------------------------------------------------
(* Claims about the roll-forward of the annual waterfall and about the     *)
(* exit allocation.                                                        *)

\* The deficit handed to the call of the last row: what was owed less the
\* preference of the year itself.
LpDeficitPassedIn == RSub(dist.lp_pref_owed, dist.lp_pref_current)
GpDeficitPassedIn == RSub(dist.gp_pref_owed, dist.gp_pref_current)

RECURSIVE TotalsThrough(_, _)
TotalsThrough(n, column) ==
    IF n = 0 THEN Zero ELSE RAdd(TotalsThrough(n - 1, column), waterfall_data[n][column])

\* C26: the annual waterfall is a year-by-year state machine.  The deficits
\* start at 0; the deficit passed into a year is the new deficit of the year
\* before; the deficit columns of a row are the rolled-forward values and those
\* of the last row are what the exit waterfall consumes; LP Cumulative and GP
\* Cumulative of row n are the sums of LP Total and GP Total over rows 1..n
\* and never decrease.
C26_DeficitsAndCumulativesRollForward ==
    /\ Len(waterfall_data) = 0 =>
          /\ lp_cumulative_deficit = Zero
          /\ gp_cumulative_deficit = Zero
    /\ Len(waterfall_data) >= 1 =>
          /\ LpDeficitPassedIn = IF LastTwo THEN PrevRow.LP_Pref_Deficit ELSE Zero
          /\ GpDeficitPassedIn = IF LastTwo THEN PrevRow.GP_Pref_Deficit ELSE Zero
          /\ LastRow.LP_Pref_Deficit = dist.new_lp_deficit
          /\ LastRow.GP_Pref_Deficit = dist.new_gp_deficit
          /\ lp_cumulative_deficit = LastRow.LP_Pref_Deficit
          /\ gp_cumulative_deficit = LastRow.GP_Pref_Deficit
    /\ \A n \in Rows :
          /\ waterfall_data[n].LP_Cumulative = TotalsThrough(n, "LP_Total")
          /\ waterfall_data[n].GP_Cumulative = TotalsThrough(n, "GP_Total")
          /\ n > 1 =>
                /\ RGe(waterfall_data[n].LP_Cumulative, waterfall_data[n - 1].LP_Cumulative)
                /\ RGe(waterfall_data[n].GP_Cumulative, waterfall_data[n - 1].GP_Cumulative)
    /\ AfterPref =>
          /\ exit_state.final_lp_deficit_exit = LastRow.LP_Pref_Deficit
          /\ exit_state.final_gp_deficit_exit = LastRow.GP_Pref_Deficit

\* C26 witness: a deficit left by the first year was passed into the second,
\* which paid part of it and raised both cumulative totals, and the exit paid
\* down what the last row still carried.
C26_Witness ==
    /\ ExitDone
    /\ Len(waterfall_data) = 2
    /\ RGt(PrevRow.LP_Pref_Deficit, Zero)
    /\ RGt(LpDeficitPassedIn, Zero)
    /\ RGt(LastRow.LP_Pref, Zero)
    /\ RGt(LastRow.LP_Pref_Deficit, Zero)
    /\ RGt(LastRow.LP_Cumulative, PrevRow.LP_Cumulative)
    /\ RGt(LastRow.GP_Cumulative, PrevRow.GP_Cumulative)
    /\ RGt(exit_state.lp_pref_catchup, Zero)

BaseLpSplit == RDiv(RMul(Residual, R(100 - exit_in.gp_profit_share)), Hundred)
BaseGpSplit == RDiv(RMul(Residual, R(exit_in.gp_profit_share)), Hundred)

\* C28: in LP Return Cap mode the cap only ever reduces LP's share.  The
\* residual amount allocated to LP lies between 0 and LP's amount under the
\* plain base split, and the amount allocated to GP is not below GP's
\* base-split amount.
C28_CapOnlyReducesLpShare ==
    (ExitDone /\ exit_in.promote_mode = LpReturnCap) =>
        /\ RGe(exit_state.lp_exit_split, Zero)
        /\ RLe(exit_state.lp_exit_split, BaseLpSplit)
        /\ RGe(exit_state.gp_exit_split, BaseGpSplit)

---------------------------------------------------------------------------
(* A claim about a direct call of calculate_waterfall_distribution.        *)

DistCallEnded == pc \in {"dist_returned", "dist_raised"}

\* C30: calculate_waterfall_distribution returns a distribution without
\* raising for every GP profit share in 0..100 and every cash amount, with and
\* without the catch-up tier, and for zero total equity, where the pro-rata
\* equity shares are reported as zero.
C30_DistributionNeverRaises ==
    DistCallEnded =>
        /\ pc = "dist_returned"
        /\ ~dist.raised
        /\ (dist_in.lp_equity + dist_in.gp_equity = 0) =>
              /\ dist.lp_equity_pct = Zero
              /\ dist.gp_equity_pct = Zero

---------------------------------------------------------------------------
(* Claims about the exit waterfall of quick_deal_irr.                      *)

QuickDone == pc = "quick_done"

\* The LP IRR with the whole residual, as the live exit computes it.
LpIrrWithWholeResidual ==
    lp_irr_given_exit_share(waterfall_data, R(exit_in.lp_equity),
                            RAdd(exit_state.lp_capital_return, exit_state.lp_pref_catchup),
                            Residual)

\* C29: on the same annual table and the same gross equity proceeds the exit
\* waterfall of quick_deal_irr allocates the same LP and GP exit amounts as
\* the live exit waterfall, in each of the three promote modes, also in LP
\* Return Cap mode when an LP IRR is undefined.
C29_QuickExitMatchesLiveExit ==
    QuickDone =>
        /\ quick_state.lp_exit = exit_state.lp_exit_total
        /\ quick_state.gp_exit = exit_state.gp_exit_total
        /\ quick_state.lp_es = exit_state.lp_exit_split
        /\ quick_state.gp_es = exit_state.gp_exit_split

\* A sensitivity cell ended its exit waterfall in LP Return Cap mode on a deal
\* whose LP IRR is undefined.
C29_Witness ==
    /\ QuickDone
    /\ exit_in.promote_mode = LpReturnCap
    /\ ~LpIrrWithWholeResidual.defined

\* A sensitivity cell ended its exit waterfall after the search for the capped
\* LP share, with a positive residual.
C29_WitnessSearch ==
    /\ QuickDone
    /\ exit_in.promote_mode = LpReturnCap
    /\ RGt(Residual, Zero)
    /\ RGt(quick_state.lp_es, Zero)
    /\ quick_state.lp_es # quick_split(Residual, R(exit_in.gp_profit_share)).lp_es

---------------------------------------------------------------------------
(* Claims about the annual cash-flow table.                                *)

\* The live loop has set up its locals; the loop of quick_deal_irr has.
CashStarted == pc \in {"cash_loop", "cash_table", "quick_loop", "quick_table"}
QuickCashStarted == pc \in {"quick_loop", "quick_table"}

\* The net proceeds of the refinance of run s, if one was computed.
NetRefiProceeds(s) ==
    IF s.refi_results = <<>> THEN Zero ELSE s.refi_results[Len(s.refi_results)].net_proceeds

\* Cash Available of a row as stated, from its NOI, operating costs and debt
\* service.
CashAvailableAsStated(s, row, operating_costs, debt_service) ==
    row.Cash_Available =
        RSub(RAdd(RSub(RSub(row.NOI, operating_costs), debt_service),
                  IF row.Year = cash_in.refi_year THEN NetRefiProceeds(s) ELSE Zero),
             IF row.Year = cash_in.value_add_year THEN cash_in.value_add_capex ELSE Zero)

\* C24: in the annual cash-flow table of the live pipeline and of
\* quick_deal_irr, Cash Available of year y is NOI - operating costs - debt
\* service, plus the net refinance proceeds exactly when y is the refinance
\* year, minus the value-add capex exactly when y is the capex year; the
\* proceeds enter no other year.
C24_CashAvailable ==
    /\ CashStarted =>
           \A i \in 1..Len(cash_state.cf_data) :
               CashAvailableAsStated(cash_state, cash_state.cf_data[i],
                                     cash_state.cf_data[i].Non_Operating_Expenses,
                                     cash_state.cf_data[i].Debt_Service)
    /\ QuickCashStarted =>
           \A i \in 1..Len(quick_cash.cf_data) :
               CashAvailableAsStated(quick_cash, quick_cash.cf_data[i],
                                     quick_cash.cf_data[i].opex,
                                     quick_cash.cf_data[i].ds)

\* Both tables are complete for a deal refinanced before its last year with
\* proceeds other than 0 and with capex spent in a year that is not the
\* refinance year.
C24_Witness ==
    /\ pc = "quick_table"
    /\ cash_in.refi_year < cash_in.holding_period
    /\ NetRefiProceeds(cash_state) # Zero
    /\ NetRefiProceeds(quick_cash) # Zero
    /\ RGt(cash_in.value_add_capex, Zero)
    /\ cash_in.value_add_year # cash_in.refi_year

\* The acquisition loan's balance after the given years, by strategy.
AcquisitionBalance(s, years) ==
    IF cash_in.deal_strategy = BridgeToPerm
    THEN calculate_bridge_loan_balance(s.bridge_loan_amount, cash_in.bridge_rate,
                                       cash_in.bridge_term, years, cash_in.bridge_io)
    ELSE calculate_perm_loan_balance(s.initial_loan_amount, s.perm_rate,
                                     cash_in.perm_amort, years)

\* The refinance was computed once if the loop has reached the refinance year
\* and not at all before; the old loan was paid off at its balance of the end
\* of the year before.
RefinancedOnceInRefiYear(s) ==
    /\ Len(s.refi_results) = IF Len(s.cf_data) >= cash_in.refi_year THEN 1 ELSE 0
    /\ cash_in.refi_year > cash_in.holding_period => s.refi_results = <<>>
    /\ s.refi_results # <<>> =>
           s.refi_results[1].bridge_payoff = AcquisitionBalance(s, cash_in.refi_year - 1)

\* A row carries the acquisition loan before the refinance year and the new
\* loan from the refinance year on.
RowCarriesLoan(s, row, debt_service) ==
    IF row.Year < cash_in.refi_year
    THEN /\ debt_service = s.initial_debt_service
         /\ row.Loan_Balance = AcquisitionBalance(s, row.Year)
    ELSE /\ debt_service =
                calculate_perm_loan_payment(s.refi_results[1].new_loan_amount,
                                            s.perm_rate, cash_in.perm_amort)
         /\ row.Loan_Balance =
                calculate_perm_loan_balance(s.refi_results[1].new_loan_amount,
                    s.perm_rate, cash_in.perm_amort, row.Year - cash_in.refi_year + 1)

\* The loan lifecycle of both tables, without the labels.
LoanLifecycle ==
    /\ CashStarted =>
           /\ RefinancedOnceInRefiYear(cash_state)
           /\ \A i \in 1..Len(cash_state.cf_data) :
                  RowCarriesLoan(cash_state, cash_state.cf_data[i],
                                 cash_state.cf_data[i].Debt_Service)
    /\ QuickCashStarted =>
           /\ RefinancedOnceInRefiYear(quick_cash)
           /\ \A i \in 1..Len(quick_cash.cf_data) :
                  RowCarriesLoan(quick_cash, quick_cash.cf_data[i],
                                 quick_cash.cf_data[i].ds)

\* The label of the rows of the acquisition loan.
AcquisitionLabel == IF cash_in.deal_strategy = BridgeToPerm THEN "Bridge" ELSE "Perm"

\* C25 as stated: the refinance is computed at most once, in the row of the
\* refinance year, and never when that year lies beyond the hold or is 999;
\* earlier rows carry the acquisition loan's payment and balance, the old loan
\* is paid off at its balance of the end of year refi_year - 1, later rows
\* carry the new loan's payment and its balance after year - refi_year + 1
\* years; and no row after the refinance row has the acquisition loan's label.
C25_LoanLifecycleAsStated ==
    /\ LoanLifecycle
    /\ CashStarted =>
           \A i \in 1..Len(cash_state.cf_data) :
               i > cash_in.refi_year =>
                   cash_state.cf_data[i].Loan_Type # AcquisitionLabel

\* C25, amended: the loan lifecycle as stated; the labels of the
\* bridge-to-permanent table go from "Bridge" over the refinance row to
\* "Perm" and never back to "Bridge", while the buy-and-hold table labels the
\* refinance row "Perm Refi" and every other row "Perm", before and after it.
C25_LoanLifecycle ==
    /\ LoanLifecycle
    /\ CashStarted =>
           \A i \in 1..Len(cash_state.cf_data) :
               cash_state.cf_data[i].Loan_Type =
                   IF cash_in.deal_strategy = BridgeToPerm
                   THEN IF i < cash_in.refi_year THEN "Bridge"
                        ELSE IF i = cash_in.refi_year THEN "Bridge->Perm"
                        ELSE "Perm"
                   ELSE IF i = cash_in.refi_year THEN "Perm Refi" ELSE "Perm"

\* Both tables are complete for a buy-and-hold deal that was refinanced and
\* held on after the refinance year.
C25_Witness ==
    /\ pc = "quick_table"
    /\ cash_in.deal_strategy = BuyAndHold
    /\ cash_in.refi_year < cash_in.holding_period
    /\ Len(cash_state.refi_results) = 1
    /\ Len(quick_cash.refi_results) = 1

---------------------------------------------------------------------------
(* Claims about the sensitivity sweep and about the structures the runs    *)
(* share.                                                                  *)

SweepStarted == pc \in {"sweep_1", "sweep_2", "rerun_noi", "rerun_waterfall", "rerun_done"}
SweepEnded == pc \in {"rerun_noi", "rerun_waterfall", "rerun_done"}

\* Every stored cell whose evaluation raised reads "N/A".
RaisedCellsReadNA(sens_data) ==
    \A pr \in 1..Len(sens_data) : \A ec \in 1..Len(sens_data[pr]) :
        <<pr, ec>> \in sweep.outcomes.raises => sens_data[pr][ec] = "N/A"

\* A table with a cell for every perm rate and every exit cap.
FullGrid(sens_data) ==
    /\ Len(sens_data) = Len(perm_rate_deltas)
    /\ \A pr \in 1..Len(sens_data) : Len(sens_data[pr]) = Len(exit_cap_range)

\* C22: no exception leaves a cell evaluation; a cell whose pipeline raised
\* gets (None, None) and reads "N/A" in both tables, and the sweep evaluates
\* every cell of the 5 x 7 grid of both tables.
C22_SweepSurvivesFailingCells ==
    SweepStarted =>
        /\ ~sweep.aborted
        /\ RaisedCellsReadNA(sweep.sens1_data)
        /\ RaisedCellsReadNA(sweep.sens2_data)
        /\ SweepEnded =>
               /\ FullGrid(sweep.sens1_data)
               /\ FullGrid(sweep.sens2_data)
               /\ sweep.cells = 2 * Len(perm_rate_deltas) * Len(exit_cap_range)

\* The sweep ended after its first cell raised, and the cell after it holds
\* an IRR.
C22_Witness ==
    /\ SweepEnded
    /\ <<1, 1>> \in sweep.outcomes.raises
    /\ sweep.sens1_data[1][1] = "N/A"
    /\ sweep.sens1_data[1][2] = "13.5%"
    /\ sweep.sens2_data[1][2] = "12.5%"

=============================================================================
